---- MODULE Spec2Model ----
(***************************************************************************)
(* Library API: the in-memory author/book store and the query pipeline     *)
(* (parse -> filter/search -> sort -> paginate) of utils/queryUtils.ts and *)
(* routes/books.ts.                                                        *)
(*                                                                         *)
(* A JavaScript string is modelled as the sequence of its characters (each *)
(* a one-character string), so that toLowerCase, trim, includes, parseInt  *)
(* and the relational operators are computed character by character.  An   *)
(* optional value (a property that may be undefined) is <<>> when absent   *)
(* and <<v>> when present.                                                 *)
(***************************************************************************)
EXTENDS Integers, Sequences, FiniteSets, TLC

VARIABLES
    books,      \* data/index.ts books: the array the handlers read and pass on
    authors,    \* data/index.ts authors
    routeAuthors, \* routes/authors.ts authors: the array the /authors routes use
    issued,     \* history: the ids the POST handlers have given out so far
    served,     \* history: how many POST, PUT and DELETE requests were served
    req,        \* the call being made: its name (op) and its arguments
    res         \* what the call returned (done = FALSE before it has run)

vars == <<books, authors, routeAuthors, issued, served, req, res>>

----------------------------------------------------------------------------
(* JavaScript values *)

Absent == <<>>

Some(v) == <<v>>

IsPresent(o) == o # <<>>

Min(a, b) == IF a < b THEN a ELSE b

Max(a, b) == IF a > b THEN a ELSE b

\* The character with code 96 (the grave accent), written by name.
GraveAccent == "grave"

\* The printable ASCII characters in code order: Ascii[i] has code 31 + i.
Ascii ==
    <<" ", "!", "\"", "#", "$", "%", "&", "'", "(", ")", "*", "+", ",", "-", ".", "/",
      "0", "1", "2", "3", "4", "5", "6", "7", "8", "9", ":", ";", "<", "=", ">", "?",
      "@", "A", "B", "C", "D", "E", "F", "G", "H", "I", "J", "K", "L", "M", "N", "O",
      "P", "Q", "R", "S", "T", "U", "V", "W", "X", "Y", "Z", "[", "\\", "]", "^", "_",
      GraveAccent, "a", "b", "c", "d", "e", "f", "g", "h", "i", "j", "k", "l", "m", "n", "o",
      "p", "q", "r", "s", "t", "u", "v", "w", "x", "y", "z", "{", "|", "}", "~">>

\* The code of every character of Ascii.
CharCodes ==
    [c \in {Ascii[i] : i \in 1..Len(Ascii)} |->
        31 + (CHOOSE i \in 1..Len(Ascii) : Ascii[i] = c)]

\* String.prototype.charCodeAt for one character.
CharCode(c) == CharCodes[c]

FromCharCode(n) == Ascii[n - 31]

IsUpper(c) == CharCode(c) >= CharCode("A") /\ CharCode(c) <= CharCode("Z")

IsDigit(c) == CharCode(c) >= CharCode("0") /\ CharCode(c) <= CharCode("9")

IsSpace(c) == c = " "

\* String.prototype.toLowerCase
toLowerCase(s) ==
    [i \in 1..Len(s) |->
        IF IsUpper(s[i])
        THEN FromCharCode(CharCode(s[i]) + (CharCode("a") - CharCode("A")))
        ELSE s[i]]

\* String.prototype.trim: the white space at both ends removed.
trim(s) ==
    LET kept == {i \in 1..Len(s) : ~IsSpace(s[i])}
    IN  IF kept = {} THEN <<>>
        ELSE LET lo == CHOOSE i \in kept : \A j \in kept : i <= j
                 hi == CHOOSE i \in kept : \A j \in kept : i >= j
             IN  [i \in 1..(hi - lo + 1) |-> s[lo + i - 1]]

\* String.prototype.includes: sub occurs in s as a contiguous run.
includes(s, sub) ==
    \E k \in 0..(Len(s) - Len(sub)) :
        \A i \in 1..Len(sub) : s[k + i] = sub[i]

\* The relational operator < on two strings: code unit by code unit, a proper
\* prefix being the smaller.
StrLess(a, b) ==
    \E k \in 1..(Min(Len(a), Len(b)) + 1) :
        /\ \A i \in 1..(k - 1) : a[i] = b[i]
        /\ \/ k = Len(a) + 1 /\ k <= Len(b)
           \/ k <= Len(a) /\ k <= Len(b) /\ CharCode(a[k]) < CharCode(b[k])

\* Not-a-Number, and a number n, as parseInt returns them.
NaN == <<>>

Num(n) == <<n>>

\* The value of c as a digit (10..15 for a..f and A..F), or 99 when c is no digit.
DigitVal(c) ==
    IF IsDigit(c) THEN CharCode(c) - CharCode("0")
    ELSE IF CharCode(c) >= CharCode("a") /\ CharCode(c) <= CharCode("f")
         THEN CharCode(c) - CharCode("a") + 10
    ELSE IF CharCode(c) >= CharCode("A") /\ CharCode(c) <= CharCode("F")
         THEN CharCode(c) - CharCode("A") + 10
    ELSE 99

RECURSIVE DigitsValue(_, _)
\* The number the digits ds write in the given radix.
DigitsValue(ds, radix) ==
    IF ds = <<>> THEN 0
    ELSE DigitsValue(SubSeq(ds, 1, Len(ds) - 1), radix) * radix + DigitVal(ds[Len(ds)])

\* s without its first n characters.
Drop(s, n) == [i \in 1..(Len(s) - n) |-> s[n + i]]

\* parseInt(v) without a radix: v is turned into a string (undefined gives
\* "undefined", which has no digits), leading white space is skipped, a sign and
\* a 0x/0X prefix are read, and the longest run of digits of the radix is the
\* value; no digit at all gives NaN.
parseInt(v) ==
    IF ~IsPresent(v) THEN NaN
    ELSE
    LET s        == v[1]
        blanks   == CHOOSE k \in 0..Len(s) :
                        /\ \A i \in 1..k : IsSpace(s[i])
                        /\ (k < Len(s) => ~IsSpace(s[k + 1]))
        s1       == Drop(s, blanks)
        signed   == Len(s1) > 0 /\ s1[1] \in {"+", "-"}
        sign     == IF Len(s1) > 0 /\ s1[1] = "-" THEN -1 ELSE 1
        s2       == IF signed THEN Drop(s1, 1) ELSE s1
        hex      == Len(s2) >= 2 /\ s2[1] = "0" /\ s2[2] \in {"x", "X"}
        radix    == IF hex THEN 16 ELSE 10
        s3       == IF hex THEN Drop(s2, 2) ELSE s2
        n        == CHOOSE k \in 0..Len(s3) :
                        /\ \A i \in 1..k : DigitVal(s3[i]) < radix
                        /\ (k < Len(s3) => DigitVal(s3[k + 1]) >= radix)
    IN  IF n = 0 THEN NaN ELSE Num(sign * DigitsValue(SubSeq(s3, 1, n), radix))

\* a || b on the result of parseInt: NaN and 0 are falsy.
NumOr(a, b) == IF a = NaN \/ a = Num(0) THEN b ELSE a[1]

\* Array.prototype.includes
ArrIncludes(arr, x) == \E i \in 1..Len(arr) : arr[i] = x


----------------------------------------------------------------------------
(* data/index.ts: the seeded store *)


SeedAuthor1 ==
    [id |-> 1,
     name |-> <<"J", ".", "K", ".", " ", "R", "o", "w", "l", "i", "n", "g">>,
     email |-> <<"j", "k", ".", "r", "o", "w", "l", "i", "n", "g", "@", "e", "x", "a",
               "m", "p", "l", "e", ".", "c", "o", "m">>,
     bio |-> <<"B", "r", "i", "t", "i", "s", "h", " ", "a", "u", "t", "h", "o", "r", ",",
             " ", "b", "e", "s", "t", " ", "k", "n", "o", "w", "n", " ", "f", "o", "r",
             " ", "t", "h", "e", " ", "H", "a", "r", "r", "y", " ", "P", "o", "t", "t",
             "e", "r", " ", "s", "e", "r", "i", "e", "s">>]

SeedAuthor2 ==
    [id |-> 2,
     name |-> <<"S", "t", "e", "p", "h", "e", "n", " ", "K", "i", "n", "g">>,
     email |-> <<"s", "t", "e", "p", "h", "e", "n", ".", "k", "i", "n", "g", "@", "e",
               "x", "a", "m", "p", "l", "e", ".", "c", "o", "m">>,
     bio |-> <<"A", "m", "e", "r", "i", "c", "a", "n", " ", "a", "u", "t", "h", "o", "r",
             " ", "o", "f", " ", "h", "o", "r", "r", "o", "r", ",", " ", "s", "u", "p",
             "e", "r", "n", "a", "t", "u", "r", "a", "l", " ", "f", "i", "c", "t", "i",
             "o", "n", ",", " ", "s", "u", "s", "p", "e", "n", "s", "e", ",", " ", "a",
             "n", "d", " ", "f", "a", "n", "t", "a", "s", "y", " ", "n", "o", "v", "e",
             "l", "s">>]

SeedAuthor3 ==
    [id |-> 3,
     name |-> <<"A", "g", "a", "t", "h", "a", " ", "C", "h", "r", "i", "s", "t", "i",
              "e">>,
     email |-> <<"a", "g", "a", "t", "h", "a", ".", "c", "h", "r", "i", "s", "t", "i",
               "e", "@", "e", "x", "a", "m", "p", "l", "e", ".", "c", "o", "m">>,
     bio |-> <<"E", "n", "g", "l", "i", "s", "h", " ", "w", "r", "i", "t", "e", "r", " ",
             "k", "n", "o", "w", "n", " ", "f", "o", "r", " ", "h", "e", "r", " ", "d",
             "e", "t", "e", "c", "t", "i", "v", "e", " ", "n", "o", "v", "e", "l", "s",
             ",", " ", "e", "s", "p", "e", "c", "i", "a", "l", "l", "y", " ", "t", "h",
             "o", "s", "e", " ", "f", "e", "a", "t", "u", "r", "i", "n", "g", " ", "H",
             "e", "r", "c", "u", "l", "e", " ", "P", "o", "i", "r", "o", "t">>]

SeedBook1 ==
    [id |-> 1,
     title |-> <<"H", "a", "r", "r", "y", " ", "P", "o", "t", "t", "e", "r", " ", "a",
               "n", "d", " ", "t", "h", "e", " ", "P", "h", "i", "l", "o", "s", "o",
               "p", "h", "e", "r", "'", "s", " ", "S", "t", "o", "n", "e">>,
     isbn |-> <<"9", "7", "8", "-", "0", "-", "7", "4", "7", "5", "-", "3", "2", "6",
              "9", "-", "9">>,
     publishedYear |-> 1997,
     authorId |-> 1]

SeedBook2 ==
    [id |-> 2,
     title |-> <<"H", "a", "r", "r", "y", " ", "P", "o", "t", "t", "e", "r", " ", "a",
               "n", "d", " ", "t", "h", "e", " ", "C", "h", "a", "m", "b", "e", "r",
               " ", "o", "f", " ", "S", "e", "c", "r", "e", "t", "s">>,
     isbn |-> <<"9", "7", "8", "-", "0", "-", "7", "4", "7", "5", "-", "3", "8", "4",
              "9", "-", "3">>,
     publishedYear |-> 1998,
     authorId |-> 1]

SeedBook3 ==
    [id |-> 3,
     title |-> <<"T", "h", "e", " ", "S", "h", "i", "n", "i", "n", "g">>,
     isbn |-> <<"9", "7", "8", "-", "0", "-", "3", "8", "5", "-", "1", "2", "1", "6",
              "7", "-", "5">>,
     publishedYear |-> 1977,
     authorId |-> 2]

SeedBook4 ==
    [id |-> 4,
     title |-> <<"I", "t">>,
     isbn |-> <<"9", "7", "8", "-", "0", "-", "6", "7", "0", "-", "8", "1", "3", "0",
              "2", "-", "4">>,
     publishedYear |-> 1986,
     authorId |-> 2]

SeedBook5 ==
    [id |-> 5,
     title |-> <<"M", "u", "r", "d", "e", "r", " ", "o", "n", " ", "t", "h", "e", " ",
               "O", "r", "i", "e", "n", "t", " ", "E", "x", "p", "r", "e", "s", "s">>,
     isbn |-> <<"9", "7", "8", "-", "0", "-", "0", "0", "-", "7", "1", "1", "9", "2",
              "6", "-", "2">>,
     publishedYear |-> 1934,
     authorId |-> 3]

SeedAuthors == <<SeedAuthor1, SeedAuthor2, SeedAuthor3>>

SeedBooks == <<SeedBook1, SeedBook2, SeedBook3, SeedBook4, SeedBook5>>

----------------------------------------------------------------------------
(* utils/queryUtils.ts *)

DefaultPage == 1

DefaultLimit == 10

MinLimit == 1

MaxLimit == 100

\* Math.ceil(a / b) for a >= 0 and b > 0.
MathCeilDiv(a, b) == IF a % b = 0 THEN a \div b ELSE (a \div b) + 1

\* Array.prototype.slice(start, end): a negative index counts from the end, both
\* indexes are clamped to the array, and an empty window gives an empty array.
slice(arr, start, end) ==
    LET len  == Len(arr)
        from == IF start < 0 THEN Max(len + start, 0) ELSE Min(start, len)
        to   == IF end < 0 THEN Max(len + end, 0) ELSE Min(end, len)
    IN  [i \in 1..(to - from) |-> arr[from + i]]

\* parsePagination(query)
parsePagination(query) ==
    [page  |-> Max(1, NumOr(parseInt(query.page), DefaultPage)),
     limit |-> Min(MaxLimit, Max(MinLimit, NumOr(parseInt(query.limit), DefaultLimit)))]

\* parseSort that takes whatever sortBy was asked for, allow-listed or not.
parseSort_unchecked(query, allowedFields) ==
    [sortBy    |-> IF IsPresent(query.sortBy) THEN query.sortBy[1]
                   ELSE IF Len(allowedFields) > 0 /\ allowedFields[1] # ""
                        THEN allowedFields[1] ELSE "id",
     sortOrder |-> IF query.sortOrder = Some("desc") THEN "desc" ELSE "asc"]

\* parseSort(query, allowedFields).  Field names and sort orders are only ever
\* compared for equality, so they are kept as whole strings.
parseSort(query, allowedFields) ==
    [sortBy    |-> IF IsPresent(query.sortBy) /\ ArrIncludes(allowedFields, query.sortBy[1])
                   THEN query.sortBy[1]
                   ELSE IF Len(allowedFields) > 0 /\ allowedFields[1] # ""
                        THEN allowedFields[1] ELSE "id",
     sortOrder |-> IF query.sortOrder = Some("desc") THEN "desc" ELSE "asc"]

\* The truthiness of an optional number and of an optional string: undefined, 0
\* and "" are falsy.
TruthyNum(o) == IsPresent(o) /\ o[1] # 0

TruthyStr(o) == IsPresent(o) /\ o[1] # <<>>

\* The callback of filterBooks: FALSE as soon as one filter rejects the book.
filterKeeps(book, filters) ==
    IF TruthyNum(filters.authorId) /\ book.authorId # filters.authorId[1] THEN FALSE
    ELSE IF TruthyNum(filters.publishedYear)
            /\ book.publishedYear # filters.publishedYear[1] THEN FALSE
    ELSE IF TruthyNum(filters.publishedYearFrom)
            /\ book.publishedYear < filters.publishedYearFrom[1] THEN FALSE
    ELSE IF TruthyNum(filters.publishedYearTo)
            /\ book.publishedYear > filters.publishedYearTo[1] THEN FALSE
    ELSE IF TruthyStr(filters.title)
            /\ ~includes(toLowerCase(book.title), toLowerCase(filters.title[1])) THEN FALSE
    ELSE IF TruthyStr(filters.isbn) /\ book.isbn # filters.isbn[1] THEN FALSE
    ELSE TRUE

\* A filterBooks whose loop starts at the second book.
filterBooks_fromSecond(bs, filters) ==
    LET keep(book) == filterKeeps(book, filters)
    IN  IF bs = <<>> THEN <<>> ELSE SelectSeq(Tail(bs), keep)

\* filterBooks(books, filters)
filterBooks(bs, filters) ==
    LET keep(book) == filterKeeps(book, filters)
    IN  SelectSeq(bs, keep)

StrTitle == <<"t", "i", "t", "l", "e">>

StrIsbn == <<"i", "s", "b", "n">>

StrAuthor == <<"a", "u", "t", "h", "o", "r">>

DefaultSearchFields == <<StrTitle, StrIsbn, StrAuthor>>

\* A find that gives the first author when none has the id.
findAuthor_orFirst(as, id) ==
    LET hits == {i \in 1..Len(as) : as[i].id = id}
    IN  IF hits = {} THEN (IF as = <<>> THEN Absent ELSE Some(as[1]))
        ELSE Some(as[CHOOSE i \in hits : \A j \in hits : i <= j])

\* Array.prototype.find on authors: the first author with the id, if any.
findAuthor(as, id) ==
    LET hits == {i \in 1..Len(as) : as[i].id = id}
    IN  IF hits = {} THEN Absent
        ELSE Some(as[CHOOSE i \in hits : \A j \in hits : i <= j])

\* The callback of searchBooks for the trimmed, lower-cased query.
searchMatches(book, as, searchQuery, fields) ==
    IF ArrIncludes(fields, StrTitle) /\ includes(toLowerCase(book.title), searchQuery)
    THEN TRUE
    ELSE IF ArrIncludes(fields, StrIsbn) /\ includes(toLowerCase(book.isbn), searchQuery)
    THEN TRUE
    ELSE IF ArrIncludes(fields, StrAuthor)
    THEN LET author == findAuthor(as, book.authorId)
         IN  IsPresent(author) /\ includes(toLowerCase(author[1].name), searchQuery)
    ELSE FALSE

\* searchBooks matching the title as it is written, not lower-cased.
searchBooks_titleCaseSensitive(bs, as, params) ==
    LET searchQuery == trim(toLowerCase(params.query))
        fields      == IF IsPresent(params.fields) THEN params.fields[1]
                       ELSE DefaultSearchFields
        hit(book)   ==
            \/ ArrIncludes(fields, StrTitle) /\ includes(book.title, searchQuery)
            \/ searchMatches(book, as, searchQuery,
                             SelectSeq(fields, LAMBDA f : f # StrTitle))
    IN  IF searchQuery = <<>> THEN bs ELSE SelectSeq(bs, hit)

\* searchBooks(books, authors, {query, fields = ['title', 'isbn', 'author']})
searchBooks(bs, as, params) ==
    LET searchQuery == trim(toLowerCase(params.query))
        fields      == IF IsPresent(params.fields) THEN params.fields[1]
                       ELSE DefaultSearchFields
        hit(book)   == searchMatches(book, as, searchQuery, fields)
    IN  IF searchQuery = <<>> THEN bs ELSE SelectSeq(bs, hit)

\* paginate with the window starting one page too far (startIndex = page * limit).
paginate_startAtPage(data, p) ==
    LET total      == Len(data)
        totalPages == MathCeilDiv(total, p.limit)
        startIndex == p.page * p.limit
        endIndex   == startIndex + p.limit
    IN  [data |-> slice(data, startIndex, endIndex),
         pagination |-> [page |-> p.page, limit |-> p.limit, total |-> total,
                         totalPages |-> totalPages,
                         hasNext |-> p.page < totalPages,
                         hasPrev |-> p.page > 1]]

\* paginate with hasNext computed as page <= totalPages.
paginate_hasNextInclusive(data, p) ==
    LET total      == Len(data)
        totalPages == MathCeilDiv(total, p.limit)
        startIndex == (p.page - 1) * p.limit
        endIndex   == startIndex + p.limit
    IN  [data |-> slice(data, startIndex, endIndex),
         pagination |-> [page |-> p.page, limit |-> p.limit, total |-> total,
                         totalPages |-> totalPages,
                         hasNext |-> p.page <= totalPages,
                         hasPrev |-> p.page > 1]]

\* paginate with the window one record short (endIndex = startIndex + limit - 1).
paginate_shortWindow(data, p) ==
    LET total      == Len(data)
        totalPages == MathCeilDiv(total, p.limit)
        startIndex == (p.page - 1) * p.limit
        endIndex   == startIndex + p.limit - 1
    IN  [data |-> slice(data, startIndex, endIndex),
         pagination |-> [page |-> p.page, limit |-> p.limit, total |-> total,
                         totalPages |-> totalPages,
                         hasNext |-> p.page < totalPages,
                         hasPrev |-> p.page > 1]]

\* paginate(data, {page, limit})
paginate(data, p) ==
    LET total      == Len(data)
        totalPages == MathCeilDiv(total, p.limit)
        startIndex == (p.page - 1) * p.limit
        endIndex   == startIndex + p.limit
    IN  [data |-> slice(data, startIndex, endIndex),
         pagination |-> [page |-> p.page, limit |-> p.limit, total |-> total,
                         totalPages |-> totalPages,
                         hasNext |-> p.page < totalPages,
                         hasPrev |-> p.page > 1]]

\* sortValue taking the title as written, not lower-cased.
sortValue_titleAsWritten(book, sortBy) ==
    CASE sortBy = "title" -> book.title
      [] sortBy = "publishedYear" -> book.publishedYear
      [] sortBy = "isbn" -> book.isbn
      [] OTHER -> book.id

\* The two values the comparator of sortBooks compares, chosen by sortBy.
sortValue(book, sortBy) ==
    CASE sortBy = "title" -> toLowerCase(book.title)
      [] sortBy = "publishedYear" -> book.publishedYear
      [] sortBy = "isbn" -> book.isbn
      [] OTHER -> book.id

\* aValue < bValue: numbers by value, strings code unit by code unit.
ValueLess(sortBy, x, y) ==
    IF sortBy \in {"title", "isbn"} THEN StrLess(x, y) ELSE x < y

\* The comparator of sortBooks: negative, positive or 0.
compareBooks(a, b, p) ==
    LET aValue == sortValue(a, p.sortBy)
        bValue == sortValue(b, p.sortBy)
    IN  IF ValueLess(p.sortBy, aValue, bValue)
        THEN (IF p.sortOrder = "asc" THEN -1 ELSE 1)
        ELSE IF ValueLess(p.sortBy, bValue, aValue)
        THEN (IF p.sortOrder = "asc" THEN 1 ELSE -1)
        ELSE 0

RECURSIVE ArraySort(_, _)
\* Array.prototype.sort with the comparator of sortBooks.  The sort is stable
\* (ECMAScript 2019): each element goes behind the last one already placed that
\* does not compare greater than it.
ArraySort(arr, p) ==
    IF arr = <<>> THEN <<>>
    ELSE LET n      == Len(arr)
             placed == ArraySort(SubSeq(arr, 1, n - 1), p)
             x      == arr[n]
             before == {i \in 1..Len(placed) : compareBooks(placed[i], x, p) <= 0}
             k      == IF before = {} THEN 0
                       ELSE CHOOSE i \in before : \A j \in before : j <= i
         IN  SubSeq(placed, 1, k) \o <<x>> \o SubSeq(placed, k + 1, Len(placed))

Reverse(arr) == [i \in 1..Len(arr) |-> arr[Len(arr) + 1 - i]]

\* sortBooks getting the descending order by reversing the ascending array.
sortBooks_reverseForDesc(bs, p) ==
    [value |-> IF p.sortOrder = "asc" THEN ArraySort(bs, p)
               ELSE Reverse(ArraySort(bs, [p EXCEPT !.sortOrder = "asc"])),
     input |-> bs]

\* sortBooks(books, {sortBy, sortOrder}): the sorted copy [...books] it returns
\* (value) and the array it was given as the call leaves it (input).
sortBooks(bs, p) ==
    [value |-> ArraySort(bs, p), input |-> bs]

RECURSIVE split(_, _)
\* String.prototype.split(sep) for a one-character separator.
split(str, sep) ==
    LET cuts == {i \in 1..Len(str) : str[i] = sep}
    IN  IF cuts = {} THEN <<str>>
        ELSE LET c == CHOOSE i \in cuts : \A j \in cuts : i <= j
             IN  <<SubSeq(str, 1, c - 1)>> \o split(Drop(str, c), sep)

\* middleware/errorHandler.ts errorHandler for an error that is no AppError and
\* has none of the names it knows (a TypeError, say): the 500 envelope.
\* timestamp is the time of the response.
errorHandlerUnexpected(method, path) ==
    [status |-> 500,
     body |-> [success |-> FALSE,
               error |-> [message |-> "Internal Server Error",
                          statusCode |-> 500,
                          errorCode |-> "INTERNAL_SERVER_ERROR",
                          timestamp |-> "now",
                          path |-> path,
                          method |-> method]]]

\* A property of req.query as the query-string parser leaves it.
Undefined == [kind |-> "undefined"]

Str(s) == [kind |-> "string", value |-> s]

Arr(a) == [kind |-> "array", value |-> a]

\* The property as an optional string, for parseInt of a string or of nothing.
AsOptional(v) == IF v.kind = "string" THEN Some(v.value) ELSE Absent

\* routes/books.ts GET /books/search.  The error of the 400 it sends itself is
\* a JSON string, where the error of errorHandler is an object.
getSearch(bs, as, query) ==
    IF query.query.kind # "string" \/ query.query.value = <<>>
    THEN [status |-> 400,
          body |-> [success |-> FALSE, error |-> Str("Search query is required")]]
    ELSE IF query.fields.kind = "array"
    THEN errorHandlerUnexpected("GET", "/books/search")
    ELSE
    LET searchParams ==
            [query  |-> trim(query.query.value),
             fields |-> IF query.fields.kind = "string" /\ query.fields.value # <<>>
                        THEN Some(split(query.fields.value, ","))
                        ELSE Some(DefaultSearchFields)]
        searchResults == searchBooks(bs, as, searchParams)
        pagination == parsePagination([page |-> AsOptional(query.page),
                                       limit |-> AsOptional(query.limit)])
        paginated == paginate(searchResults, pagination)
    IN  [status |-> 200,
         body |-> [success |-> TRUE,
                   message |-> <<"Found", Len(searchResults), "books matching",
                                 query.query.value>>,
                   data |-> paginated.data,
                   pagination |-> paginated.pagination]]

\* Math.round of the quotient sum / n of a non-negative sum: the nearest
\* integer, a half rounded up.
MathRoundDiv(sum, n) == (2 * sum + n) \div (2 * n)

RECURSIVE SumOf(_)
\* years.reduce((sum, year) => sum + year, 0)
SumOf(years) == IF years = <<>> THEN 0 ELSE years[1] + SumOf(Tail(years))

\* Math.min(...years) and Math.max(...years) of a non-empty array.
MathMin(years) == CHOOSE y \in {years[i] : i \in 1..Len(years)} :
                      \A i \in 1..Len(years) : y <= years[i]

MathMax(years) == CHOOSE y \in {years[i] : i \in 1..Len(years)} :
                      \A i \in 1..Len(years) : y >= years[i]

\* stats.booksByYear after the first forEach: one key per year that occurs,
\* with the number of books of that year.
booksByYear(bs) ==
    [y \in {bs[i].publishedYear : i \in 1..Len(bs)} |->
        Cardinality({i \in 1..Len(bs) : bs[i].publishedYear = y})]

\* A booksByAuthor that counts the books of an author that is not found as
\* well, under the name Unknown.
booksByAuthor_countsOrphans(bs, as) ==
    [a \in {bs[i].authorId : i \in 1..Len(bs)} |->
        [count      |-> Cardinality({i \in 1..Len(bs) : bs[i].authorId = a}),
         authorName |-> IF findAuthor(as, a) = Absent THEN <<"U", "n", "k", "n", "o", "w", "n">>
                        ELSE findAuthor(as, a)[1].name]]

\* stats.booksByAuthor after the second forEach: one key per authorId whose
\* author authors.find finds; a book whose author is not found is skipped.
booksByAuthor(bs, as) ==
    [a \in {bs[i].authorId : i \in 1..Len(bs)} \cap {as[j].id : j \in 1..Len(as)} |->
        [count      |-> Cardinality({i \in 1..Len(bs) : bs[i].authorId = a}),
         authorName |-> findAuthor(as, a)[1].name]]

\* The stats object as it is initialised, which the early return hands back.
emptyStats(bs, as) ==
    [totalBooks |-> Len(bs),
     totalAuthors |-> Len(as),
     booksByYear |-> << >>,
     booksByAuthor |-> << >>,
     publishedYearRange |-> [earliest |-> 0, latest |-> 0],
     averagePublishedYear |-> 0]

\* A variant that lists every author, with a count of 0 for an author without
\* books, and so has no early return.
getBookStats_listsEveryAuthor(bs, as) ==
    LET years == [i \in 1..Len(bs) |-> bs[i].publishedYear]
    IN  [totalBooks |-> Len(bs),
         totalAuthors |-> Len(as),
         booksByYear |-> booksByYear(bs),
         booksByAuthor |->
            [a \in {as[j].id : j \in 1..Len(as)} |->
                [count      |-> Cardinality({i \in 1..Len(bs) : bs[i].authorId = a}),
                 authorName |-> findAuthor(as, a)[1].name]],
         publishedYearRange |->
            [earliest |-> IF bs = <<>> THEN 0 ELSE MathMin(years),
             latest   |-> IF bs = <<>> THEN 0 ELSE MathMax(years)],
         averagePublishedYear |->
            IF bs = <<>> THEN 0 ELSE MathRoundDiv(SumOf(years), Len(years))]

\* utils/queryUtils.ts getBookStats.  The two Record objects are functions
\* from their keys; an object without keys is the function with empty domain.
getBookStats(bs, as) ==
    IF Len(bs) = 0
    THEN emptyStats(bs, as)
    ELSE LET years == [i \in 1..Len(bs) |-> bs[i].publishedYear]
         IN  [totalBooks |-> Len(bs),
              totalAuthors |-> Len(as),
              booksByYear |-> booksByYear(bs),
              booksByAuthor |-> booksByAuthor(bs, as),
              publishedYearRange |-> [earliest |-> MathMin(years),
                                      latest   |-> MathMax(years)],
              averagePublishedYear |-> MathRoundDiv(SumOf(years), Len(years))]


----------------------------------------------------------------------------
(* paginate applied to every array of up to MaxTotal records, every page up *)
(* to MaxPage and every limit the parser can produce.                       *)

MaxTotal == 25

MaxPage == 27

\* An array of n distinguishable records.
Records(n) == [i \in 1..n |-> i]

NotRun == [done |-> FALSE]

\* No POST has been served yet.
NoneIssued == [books |-> <<>>, authors |-> <<>>]

InitPaginate ==
    /\ books = SeedBooks
    /\ authors = SeedAuthors
    /\ req \in {[op |-> "paginate", data |-> Records(n), page |-> p, limit |-> l] :
                    n \in 0..MaxTotal, p \in 1..MaxPage, l \in MinLimit..MaxLimit}
    /\ res = NotRun
    /\ routeAuthors = SeedAuthors
    /\ issued = NoneIssued
    /\ served = 0

Paginate ==
    /\ req.op = "paginate"
    /\ ~res.done
    /\ res' = [done |-> TRUE,
               value |-> paginate(req.data, [page |-> req.page, limit |-> req.limit])]
    /\ UNCHANGED <<books, authors, routeAuthors, issued, served, req>>

NextPaginate == Paginate

SpecPaginate == InitPaginate /\ [][NextPaginate]_vars

RECURSIVE ConcatPages(_, _, _)
\* The data of pages 1..n of data, in page order.
ConcatPages(data, limit, n) ==
    IF n = 0 THEN <<>>
    ELSE ConcatPages(data, limit, n - 1)
            \o paginate(data, [page |-> n, limit |-> limit]).data

\* C1: for every array and every limit in [1,100], the data of pages
\* 1..totalPages, concatenated in page order, is the array itself.
C1_PagesCoverInput ==
    (req.op = "paginate" /\ res.done) =>
        ConcatPages(req.data, req.limit, res.value.pagination.totalPages) = req.data

C1_Witness ==
    /\ req.op = "paginate" /\ res.done
    /\ Len(req.data) = 7 /\ req.limit = 3 /\ req.page = 3
    /\ res.value.pagination.totalPages = 3
    /\ res.value.data = <<7>>

\* The least k with k * limit >= total, which is ceil(total / limit).
CeilOf(total, limit) ==
    CHOOSE k \in 0..total : k * limit >= total /\ \A j \in 0..(k - 1) : j * limit < total

\* C2: total is the length of the whole input, totalPages = ceil(total / limit)
\* (0 for an empty input), hasNext = (page < totalPages), hasPrev = (page > 1);
\* 25 records at limit 10 make 3 pages, page 1 with hasNext and without hasPrev,
\* page 3 with 5 records and without hasNext; an empty input has neither on page 1.
C2_Metadata ==
    (req.op = "paginate" /\ res.done) =>
        LET m == res.value.pagination
        IN  /\ m.total = Len(req.data)
            /\ m.totalPages = CeilOf(Len(req.data), req.limit)
            /\ m.hasNext = (req.page < CeilOf(Len(req.data), req.limit))
            /\ m.hasPrev = (req.page > 1)
            /\ m.page = req.page /\ m.limit = req.limit
            /\ (Len(req.data) = 0) => (m.totalPages = 0)
            /\ (Len(req.data) = 25 /\ req.limit = 10) => (m.totalPages = 3)
            /\ (Len(req.data) = 25 /\ req.limit = 10 /\ req.page = 1)
                    => (~m.hasPrev /\ m.hasNext)
            /\ (Len(req.data) = 25 /\ req.limit = 10 /\ req.page = 3)
                    => (Len(res.value.data) = 5 /\ ~m.hasNext)
            /\ (Len(req.data) = 0 /\ req.page = 1) => (~m.hasNext /\ ~m.hasPrev)

C2_Witness ==
    /\ req.op = "paginate" /\ res.done
    /\ Len(req.data) = 25 /\ req.limit = 10 /\ req.page = 3
    /\ Len(res.value.data) = 5
    /\ ~res.value.pagination.hasNext /\ res.value.pagination.hasPrev

\* C3: the data is the records at 0-based positions (page-1)*limit up to, not
\* including, (page-1)*limit + limit, as far as they exist; past the last page
\* it is empty and total and totalPages are still those of the whole input.
C3_SliceWindow ==
    (req.op = "paginate" /\ res.done) =>
        LET first == (req.page - 1) * req.limit
            inWin == {k \in 0..(Len(req.data) - 1) : k >= first /\ k < first + req.limit}
            out   == res.value.data
        IN  /\ Len(out) = Cardinality(inWin)
            /\ \A i \in 1..Len(out) : (first + i - 1) \in inWin
                                        /\ out[i] = req.data[first + i]
            /\ (req.page > res.value.pagination.totalPages) =>
                    /\ out = <<>>
                    /\ res.value.pagination.total = Len(req.data)
                    /\ res.value.pagination.totalPages
                            = CeilOf(Len(req.data), req.limit)

C3_Witness ==
    /\ req.op = "paginate" /\ res.done
    /\ Len(req.data) = 5 /\ req.limit = 2 /\ req.page = 4
    /\ res.value.data = <<>>
    /\ res.value.pagination.total = 5 /\ res.value.pagination.totalPages = 3

\* const x = ...; F(x): the value is computed once and named.
With(x, F(_)) == F(x)

\* A parseBookFilters that tests the parsed number for truth instead of for
\* NaN.
parseBookFilters_zeroDropped(query) ==
    LET int(v) ==
            With(parseInt(IF v.kind = "string" /\ v.value # <<>> THEN Some(v.value)
                          ELSE IF v.kind = "array" THEN Some(v.value[1])
                          ELSE Absent),
                 LAMBDA n : IF n = NaN \/ n = Num(0) THEN Absent ELSE Some(n[1]))
        str(v) == IF v.kind = "string" /\ v.value # <<>> THEN Some(trim(v.value))
                  ELSE Absent
    IN  [authorId          |-> int(query.authorId),
         publishedYear     |-> int(query.publishedYear),
         publishedYearFrom |-> int(query.publishedYearFrom),
         publishedYearTo   |-> int(query.publishedYearTo),
         title             |-> str(query.title),
         isbn              |-> str(query.isbn)]

\* utils/queryUtils.ts parseBookFilters.  A key that is not set is Absent.  An
\* array (a repeated parameter) is truthy, and parseInt reads its first element.
parseBookFilters(query) ==
    LET int(v) ==
            With(parseInt(IF v.kind = "string" /\ v.value # <<>> THEN Some(v.value)
                          ELSE IF v.kind = "array" THEN Some(v.value[1])
                          ELSE Absent),
                 LAMBDA n : IF n = NaN THEN Absent ELSE Some(n[1]))
        str(v) == IF v.kind = "string" /\ v.value # <<>> THEN Some(trim(v.value))
                  ELSE Absent
    IN  [authorId          |-> int(query.authorId),
         publishedYear     |-> int(query.publishedYear),
         publishedYearFrom |-> int(query.publishedYearFrom),
         publishedYearTo   |-> int(query.publishedYearTo),
         title             |-> str(query.title),
         isbn              |-> str(query.isbn)]

----------------------------------------------------------------------------
(* parsePagination and parseSort applied to raw query values: every string   *)
(* of up to MaxRawLen characters for one of page and limit beside a short    *)
(* one for the other, and every sortBy/sortOrder beside each allow-list;     *)
(* parseBookFilters applied to queries of missing, empty, numeric, partly    *)
(* numeric, blank and repeated parameters.                                   *)

MaxRawLen == 3

\* Characters a raw page or limit is made of: digits, a sign, white space, a
\* letter that is a hexadecimal digit and the x of a 0x prefix.
RawAlphabet == {"0", "1", "-", " ", "a", "x"}

Strings(alphabet, n) == UNION {[1..k -> alphabet] : k \in 0..n}

\* A query property: missing, or a string.
RawValues(n) == {Absent} \cup {Some(s) : s \in Strings(RawAlphabet, n)}

PaginationQueries ==
    {[page |-> p, limit |-> l] : p \in RawValues(1), l \in RawValues(MaxRawLen)}
        \cup {[page |-> p, limit |-> l] : p \in RawValues(MaxRawLen), l \in RawValues(1)}

\* The allow-list every books route passes, with others of the same kind and
\* the parameter's default (none).
BookSortFields == <<"id", "title", "publishedYear", "isbn">>

AllowLists == {BookSortFields, <<"title", "id">>, <<"publishedYear">>, <<>>}

SortByValues ==
    {Absent} \cup {Some(f) : f \in {"id", "title", "publishedYear", "isbn", "author",
                                    "Title", ""}}

SortOrderValues == {Absent} \cup {Some(o) : o \in {"desc", "asc", "DESC", "desc ", "down", ""}}

\* A query string without parameters.
EmptyQuery ==
    [page |-> Undefined, limit |-> Undefined, sortBy |-> Undefined,
     sortOrder |-> Undefined, query |-> Undefined, fields |-> Undefined,
     authorId |-> Undefined, publishedYear |-> Undefined,
     publishedYearFrom |-> Undefined, publishedYearTo |-> Undefined,
     title |-> Undefined, isbn |-> Undefined]

\* The raw values of a numeric filter and of a text filter, and the queries
\* parseBookFilters gets: authorId and publishedYear of every numeric kind
\* beside a few of the other two, and every title beside every isbn.
FilterQueries ==
    LET numeric == {Undefined, Str(<<>>), Str(<<"0">>), Str(<<"1", "2">>),
                    Str(<<"1", "a">>), Str(<<"a", "1">>), Str(<<" ", "7">>),
                    Str(<<"-", "3">>), Arr(<<<<"3">>, <<"4">>, <<"5">>>>),
                    Arr(<<<<>>, <<"4">>, <<"5">>>>)}
        year    == {Undefined, Str(<<"1", "9", "9", "0">>), Str(<<"x">>)}
        text    == {Undefined, Str(<<>>), Str(<<" ">>), Str(<<" ", "i", "t", " ">>),
                    Arr(<<<<"i", "t">>, <<"a">>>>)}
    IN  {[EmptyQuery EXCEPT !.authorId = a, !.publishedYear = y,
                            !.publishedYearFrom = f, !.publishedYearTo = t,
                            !.title = ti, !.isbn = i] :
            a \in numeric, y \in numeric, f \in year, t \in year,
            ti \in text, i \in {Undefined, Str(<<"9", "7", "8", " ">>)}}

InitParse ==
    /\ books = SeedBooks
    /\ authors = SeedAuthors
    /\ req \in {[op |-> "parsePagination", query |-> q] : q \in PaginationQueries}
            \cup {[op |-> "parseSort", query |-> [sortBy |-> f, sortOrder |-> o],
                   allowedFields |-> a] :
                        f \in SortByValues, o \in SortOrderValues, a \in AllowLists}
            \cup {[op |-> "parseBookFilters", query |-> q, route |-> "/filter"] :
                    q \in FilterQueries}
    /\ res = NotRun
    /\ routeAuthors = SeedAuthors
    /\ issued = NoneIssued
    /\ served = 0

ParsePagination ==
    /\ req.op = "parsePagination"
    /\ ~res.done
    /\ res' = [done |-> TRUE, value |-> parsePagination(req.query)]
    /\ UNCHANGED <<books, authors, routeAuthors, issued, served, req>>

ParseSort ==
    /\ req.op = "parseSort"
    /\ ~res.done
    /\ res' = [done |-> TRUE, value |-> parseSort(req.query, req.allowedFields)]
    /\ UNCHANGED <<books, authors, routeAuthors, issued, served, req>>

\* parseBookFilters(req.query), as GET /books/filter calls it
ParseBookFilters ==
    /\ req.op = "parseBookFilters"
    /\ ~res.done
    /\ res' = [done |-> TRUE, value |-> parseBookFilters(req.query)]
    /\ UNCHANGED <<books, authors, routeAuthors, issued, served, req>>

NextParse == ParsePagination \/ ParseSort \/ ParseBookFilters

SpecParse == InitParse /\ [][NextParse]_vars

\* C4: a limit that parses as an integer n comes out clamped to [1,100] (1 for
\* n < 1, 100 for n > 100), a page that parses as p comes out as max(1, p), and
\* a missing or non-numeric page or limit comes out as 1 or 10.
C4_ParsePagination ==
    (req.op = "parsePagination" /\ res.done) =>
        LET n == parseInt(req.query.limit)
            p == parseInt(req.query.page)
        IN  /\ (n # NaN) => res.value.limit =
                    (IF n[1] < 1 THEN 1 ELSE IF n[1] > 100 THEN 100 ELSE n[1])
            /\ (n = NaN) => res.value.limit = 10
            /\ (p # NaN) => res.value.page = (IF p[1] < 1 THEN 1 ELSE p[1])
            /\ (p = NaN) => res.value.page = 1

\* C5: sortBy comes out as the requested field when the allow-list has it and
\* as the allow-list's first entry otherwise, so always as a member of a
\* non-empty allow-list; sortOrder comes out "desc" exactly for the raw string
\* "desc" and "asc" for anything else or nothing.
C5_ParseSort ==
    (req.op = "parseSort" /\ res.done /\ req.allowedFields # <<>>) =>
        LET allowed   == {req.allowedFields[i] : i \in 1..Len(req.allowedFields)}
            requested == IF IsPresent(req.query.sortBy) THEN {req.query.sortBy[1]} ELSE {}
        IN  /\ (requested \cap allowed # {}) => {res.value.sortBy} = requested
            /\ (requested \cap allowed = {}) => res.value.sortBy = req.allowedFields[1]
            /\ res.value.sortBy \in allowed
            /\ (res.value.sortOrder = "desc") <=> (req.query.sortOrder = Some("desc"))
            /\ res.value.sortOrder \in {"asc", "desc"}

C5_Witness ==
    /\ req.op = "parseSort" /\ res.done
    /\ req.allowedFields = BookSortFields
    /\ req.query.sortBy = Some("author")
    /\ req.query.sortOrder = Some("DESC")
    /\ res.value = [sortBy |-> "id", sortOrder |-> "asc"]

----------------------------------------------------------------------------
(* filterBooks applied to the seeded store and to every arrangement of up to *)
(* MaxFilterBooks seeded books, with every combination of filters.           *)

MaxFilterBooks == 2

\* The arrays of n distinct records of pool, in every order.
Arrangements(pool, n) ==
    {a \in [1..n -> pool] : \A i, j \in 1..n : i # j => a[i] # a[j]}

ArrangementsUpTo(pool, n) == UNION {Arrangements(pool, k) : k \in 0..n}

SeedBookSet == {SeedBooks[i] : i \in 1..Len(SeedBooks)}

\* What parseBookFilters can hand over: integers (0 included) and trimmed
\* strings (the empty one included), each present or not.
FilterInputs ==
    [authorId          : {Absent, Some(0), Some(2)},
     publishedYear     : {Absent, Some(0), Some(1986)},
     publishedYearFrom : {Absent, Some(0), Some(1980)},
     publishedYearTo   : {Absent, Some(0), Some(1990)},
     title             : {Absent, Some(<<>>), Some(<<"i", "t">>), Some(<<"T", "H", "E">>)},
     isbn              : {Absent, Some(<<>>), Some(SeedBook4.isbn)}]

InitFilter ==
    /\ books \in {SeedBooks} \cup ArrangementsUpTo(SeedBookSet, MaxFilterBooks)
    /\ authors = SeedAuthors
    /\ req \in {[op |-> "filterBooks", filters |-> f] : f \in FilterInputs}
    /\ res = NotRun
    /\ routeAuthors = SeedAuthors
    /\ issued = NoneIssued
    /\ served = 0

FilterBooks ==
    /\ req.op = "filterBooks"
    /\ ~res.done
    /\ res' = [done |-> TRUE, value |-> filterBooks(books, req.filters)]
    /\ UNCHANGED <<books, authors, routeAuthors, issued, served, req>>

NextFilter == FilterBooks

SpecFilter == InitFilter /\ [][NextFilter]_vars

\* What C6 asks of one book: every filter that is present holds of it.
SatisfiesPresent(book, f) ==
    /\ IsPresent(f.authorId) => book.authorId = f.authorId[1]
    /\ IsPresent(f.publishedYear) => book.publishedYear = f.publishedYear[1]
    /\ IsPresent(f.publishedYearFrom) => book.publishedYear >= f.publishedYearFrom[1]
    /\ IsPresent(f.publishedYearTo) => book.publishedYear <= f.publishedYearTo[1]
    /\ IsPresent(f.title) => includes(toLowerCase(book.title), toLowerCase(f.title[1]))
    /\ IsPresent(f.isbn) => book.isbn = f.isbn[1]

\* C6: the output is the input's subsequence, in the original order, of exactly
\* the books that satisfy every filter that is present (authorId, publishedYear
\* and isbn equal, publishedYear within the inclusive bounds, title containing
\* the text whatever the case); a filter that is absent constrains nothing.
C6_FilterConjunction ==
    (req.op = "filterBooks" /\ res.done) =>
        LET ok(book) == SatisfiesPresent(book, req.filters)
        IN  res.value = SelectSeq(books, ok)

----------------------------------------------------------------------------
(* searchBooks and GET /books/search applied to the seeded store and to     *)
(* every arrangement of up to MaxSearchBooks books, with and without the    *)
(* author of some of them.                                                  *)

MaxSearchBooks == 2

\* A book the API accepts whose ISBN-10 ends in the check character X and whose
\* author is in no author list used here.
BookWithX ==
    [id |-> 6,
     title |-> <<"i", "T">>,
     isbn |-> <<"0", "8", "0", "4", "4", "2", "9", "5", "7", "X">>,
     publishedYear |-> 1986,
     authorId |-> 9]

SearchBookInputs ==
    {SeedBooks} \cup ArrangementsUpTo(SeedBookSet \cup {BookWithX}, MaxSearchBooks)

\* The seeded authors, and the same without Stephen King (books 3 and 4 are
\* then without an author).
SearchAuthorInputs == {SeedAuthors, <<SeedAuthor1, SeedAuthor3>>}

SearchQueries ==
    {<<"p", "o", "t", "t", "e", "r">>, <<"P", "o", "t", "t", "e", "r">>, <<"P", "O", "T", "T", "E", "R", " ">>, <<"k", "i", "n", "g">>, <<"x">>, <<"9", "7", "8", "-", "0", "-", "0">>, <<"i", "t">>, <<"z", "z">>, <<" ">>, <<>>}

SearchFieldInputs ==
    {Absent, Some(<<StrTitle>>), Some(<<StrIsbn>>), Some(<<StrAuthor>>),
     Some(<<StrIsbn, StrAuthor>>), Some(<<<<" ", "t", "i", "t", "l", "e">>>>)}

\* GET /books/search requests: query missing, empty, blank, given twice (an
\* array) or a string; fields likewise; page and limit.
SearchRequests ==
    [query  : {Undefined, Str(<<>>), Str(<<" ">>), Str(<<" ", " ">>), Str(<<"p", "o", "t", "t", "e", "r">>),
               Str(<<" ", "K", "i", "n", "g", " ">>), Str(<<"x">>), Arr(<<<<"i", "t">>, <<"x">>>>)},
     fields : {Undefined, Str(<<>>), Str(<<"t", "i", "t", "l", "e", ",", "i", "s", "b", "n">>), Str(<<"a", "u", "t", "h", "o", "r">>),
               Arr(<<StrTitle, StrIsbn>>)},
     page   : {Undefined, Str(<<"2">>)},
     limit  : {Undefined, Str(<<"1">>)}]

InitSearch ==
    /\ books \in SearchBookInputs
    /\ authors \in SearchAuthorInputs
    /\ req \in {[op |-> "searchBooks", params |-> [query |-> q, fields |-> f]] :
                    q \in SearchQueries, f \in SearchFieldInputs}
            \cup {[op |-> "GET /books/search", query |-> q] : q \in SearchRequests}
    /\ res = NotRun
    /\ routeAuthors = SeedAuthors
    /\ issued = NoneIssued
    /\ served = 0

SearchBooks ==
    /\ req.op = "searchBooks"
    /\ ~res.done
    /\ res' = [done |-> TRUE, value |-> searchBooks(books, authors, req.params)]
    /\ UNCHANGED <<books, authors, routeAuthors, issued, served, req>>

GetSearch ==
    /\ req.op = "GET /books/search"
    /\ ~res.done
    /\ res' = [done |-> TRUE, value |-> getSearch(books, authors, req.query)]
    /\ UNCHANGED <<books, authors, routeAuthors, issued, served, req>>

NextSearch == SearchBooks \/ GetSearch

SpecSearch == InitSearch /\ [][NextSearch]_vars

\* What C7 asks of one book for the query q: one of the requested fields has it.
FieldMatches(book, as, q, fieldSet) ==
    \/ StrTitle \in fieldSet /\ includes(toLowerCase(book.title), toLowerCase(q))
    \/ StrIsbn \in fieldSet /\ includes(toLowerCase(book.isbn), toLowerCase(q))
    \/ /\ StrAuthor \in fieldSet
       /\ \E i \in 1..Len(as) :
            as[i].id = book.authorId /\ includes(toLowerCase(as[i].name), toLowerCase(q))

\* C7: for a query that is trimmed and not empty the output is the input's
\* subsequence, in the original order, of exactly the books of which a requested
\* field (title, isbn, or the name of the author with the book's authorId, if
\* there is one) contains the query whatever the case; a book without an author
\* never matches on the author field; "potter" with the default fields over the
\* seeded store gives the two Harry Potter books.
C7_SearchDisjunction ==
    (req.op = "searchBooks" /\ res.done
        /\ req.params.query # <<>> /\ trim(req.params.query) = req.params.query) =>
        LET fs == IF IsPresent(req.params.fields) THEN req.params.fields[1]
                  ELSE <<StrTitle, StrIsbn, StrAuthor>>
            fieldSet == {fs[i] : i \in 1..Len(fs)}
            hit(book) == FieldMatches(book, authors, req.params.query, fieldSet)
        IN  /\ res.value = SelectSeq(books, hit)
            /\ (books = SeedBooks /\ authors = SeedAuthors
                    /\ req.params.query = <<"p", "o", "t", "t", "e", "r">> /\ req.params.fields = Absent)
                => res.value = <<SeedBook1, SeedBook2>>

C7_Witness ==
    /\ req.op = "searchBooks" /\ res.done
    /\ books = SeedBooks /\ authors = SeedAuthors
    /\ req.params = [query |-> <<"p", "o", "t", "t", "e", "r">>, fields |-> Absent]
    /\ res.value = <<SeedBook1, SeedBook2>>

\* C8: GET /books/search with the query missing, empty or blank answers with a
\* 4xx status and no search results, and succeeds only for a query that is a
\* string with something left after trimming.
C8_SearchQueryRequired ==
    (req.op = "GET /books/search" /\ res.done) =>
        LET q == req.query.query
            usable == q.kind = "string" /\ trim(q.value) # <<>>
        IN  /\ ~usable => /\ res.value.status >= 400 /\ res.value.status < 500
                          /\ "data" \notin DOMAIN res.value.body
            /\ res.value.status = 200 => usable

----------------------------------------------------------------------------
(* sortBooks applied to every arrangement of up to MaxSortBooks books, by   *)
(* every field of the allow-list in both orders.                            *)

MaxSortBooks == 3

\* A book the API accepts that shares all but the last character of its ISBN
\* with BookWithX.
BookWithDigit ==
    [id |-> 7,
     title |-> <<"C", "a", "r", "r", "i", "e">>,
     isbn |-> <<"0", "8", "0", "4", "4", "2", "9", "5", "7", "0">>,
     publishedYear |-> 1974,
     authorId |-> 2]

SortBookInputs ==
    ArrangementsUpTo(SeedBookSet \cup {BookWithX, BookWithDigit}, MaxSortBooks)

\* What parseSort hands over for the books routes.
SortParamInputs ==
    [sortBy : {BookSortFields[i] : i \in 1..Len(BookSortFields)},
     sortOrder : {"asc", "desc"}]

InitSort ==
    /\ books \in SortBookInputs
    /\ authors = SeedAuthors
    /\ req \in {[op |-> "sortBooks", params |-> p] : p \in SortParamInputs}
    /\ res = NotRun
    /\ routeAuthors = SeedAuthors
    /\ issued = NoneIssued
    /\ served = 0

SortBooks ==
    /\ req.op = "sortBooks"
    /\ ~res.done
    /\ res' = [done |-> TRUE, value |-> sortBooks(books, req.params).value]
    /\ books' = sortBooks(books, req.params).input
    /\ UNCHANGED <<authors, routeAuthors, issued, served, req>>

NextSort == SortBooks

SpecSort == InitSort /\ [][NextSort]_vars

\* The sort key C9 names: the number for id and publishedYear, the lower-cased
\* string for title and isbn.
ClaimedKey(book, sortBy) ==
    CASE sortBy = "title" -> toLowerCase(book.title)
      [] sortBy = "isbn" -> toLowerCase(book.isbn)
      [] sortBy = "publishedYear" -> book.publishedYear
      [] sortBy = "id" -> book.id

KeyLess(sortBy, x, y) ==
    IF sortBy \in {"title", "isbn"} THEN StrLess(x, y) ELSE x < y

Occurrences(arr, x) == Cardinality({i \in 1..Len(arr) : arr[i] = x})

IsPermutation(a, b) ==
    /\ Len(a) = Len(b)
    /\ \A i \in 1..Len(b) : Occurrences(a, b[i]) = Occurrences(b, b[i])

\* C9: a call of sortBooks returns a permutation of its input in non-decreasing
\* (asc) or non-increasing (desc) order of the key chosen by sortBy, and leaves
\* the input array as it was.
C9_SortedPermutation ==
    [][(req.op = "sortBooks" /\ ~res.done /\ res'.done) =>
        LET out == res'.value
            by  == req.params.sortBy
        IN  /\ books' = books
            /\ IsPermutation(out, books)
            /\ \A i, j \in 1..Len(out) : i < j =>
                    IF req.params.sortOrder = "asc"
                    THEN ~KeyLess(by, ClaimedKey(out[j], by), ClaimedKey(out[i], by))
                    ELSE ~KeyLess(by, ClaimedKey(out[i], by), ClaimedKey(out[j], by))
      ]_vars

C9_Witness ==
    /\ req.op = "sortBooks" /\ res.done
    /\ req.params = [sortBy |-> "title", sortOrder |-> "asc"]
    /\ books = <<SeedBook3, BookWithX, SeedBook1>>
    /\ res.value = <<SeedBook1, BookWithX, SeedBook3>>

PositionIn(arr, x) == CHOOSE i \in 1..Len(arr) : arr[i] = x

\* C10: when the sort keys are pairwise distinct the ascending result reversed
\* is the descending result; in either order, records with equal keys stay in
\* the order they had in the input.
C10_AscDescAndTies ==
    (req.op = "sortBooks" /\ res.done) =>
        LET by       == req.params.sortBy
            opposite == IF req.params.sortOrder = "asc" THEN "desc" ELSE "asc"
            other    == sortBooks(books, [sortBy |-> by, sortOrder |-> opposite]).value
            distinct == \A i, j \in 1..Len(books) :
                            i # j => ClaimedKey(books[i], by) # ClaimedKey(books[j], by)
            out      == res.value
        IN  /\ distinct => Reverse(out) = other
            /\ \A i, j \in 1..Len(out) :
                    (i < j /\ ClaimedKey(out[i], by) = ClaimedKey(out[j], by))
                        => PositionIn(books, out[i]) < PositionIn(books, out[j])

C10_Witness ==
    /\ req.op = "sortBooks" /\ res.done
    /\ req.params = [sortBy |-> "publishedYear", sortOrder |-> "desc"]
    /\ books = <<SeedBook3, SeedBook4, BookWithX>>
    /\ res.value = <<SeedBook4, BookWithX, SeedBook3>>

----------------------------------------------------------------------------
(* getBookStats applied to the seeded books, to every array of up to       *)
(* MaxStatsBooks books (one of them without an author), and to several     *)
(* author arrays, the empty one included.                                  *)

MaxStatsBooks == 2

StatsBookInputs ==
    {SeedBooks} \cup ArrangementsUpTo(SeedBookSet \cup {BookWithX}, MaxStatsBooks)

StatsAuthorInputs == {SeedAuthors, <<>>, <<SeedAuthor3, SeedAuthor1>>}

InitStats ==
    /\ books \in StatsBookInputs
    /\ authors \in StatsAuthorInputs
    /\ req = [op |-> "getBookStats"]
    /\ res = NotRun
    /\ routeAuthors = SeedAuthors
    /\ issued = NoneIssued
    /\ served = 0

GetBookStats ==
    /\ req.op = "getBookStats"
    /\ ~res.done
    /\ res' = [done |-> TRUE, value |-> getBookStats(books, authors)]
    /\ UNCHANGED <<books, authors, routeAuthors, issued, served, req>>

NextStats == GetBookStats

SpecStats == InitStats /\ [][NextStats]_vars

\* C12: getBookStats of an empty book array returns totalBooks 0,
\* averagePublishedYear 0, booksByYear and booksByAuthor without keys and
\* publishedYearRange {earliest: 0, latest: 0}, whatever the authors are.
C12_EmptyStats ==
    (req.op = "getBookStats" /\ res.done /\ books = <<>>) =>
        /\ res.value.totalBooks = 0
        /\ res.value.averagePublishedYear = 0
        /\ DOMAIN res.value.booksByYear = {}
        /\ DOMAIN res.value.booksByAuthor = {}
        /\ res.value.publishedYearRange = [earliest |-> 0, latest |-> 0]

\* getBookStats has returned for no books and the three seeded authors.
C12_Witness ==
    /\ req.op = "getBookStats" /\ res.done
    /\ books = <<>> /\ authors = SeedAuthors
    /\ res.value.totalAuthors = 3

----------------------------------------------------------------------------
(* The HTTP layer: request bodies, the typed errors and the error handler,  *)
(* the validation middleware and the handlers of the two routers.           *)

\* A number of a JSON body.  Number(n) is the integer n; Fraction(n) is a
\* number strictly between n and n + 1, for which Number.isInteger is false.
Number(n) == [kind |-> "number", value |-> n, integer |-> TRUE]

Fraction(n) == [kind |-> "number", value |-> n, integer |-> FALSE]

\* !v for a property of a JSON body: undefined, "" and 0 are falsy.
Falsy(v) ==
    \/ v.kind = "undefined"
    \/ v.kind = "string" /\ v.value = <<>>
    \/ v.kind = "number" /\ v.integer /\ v.value = 0

\* errors/AppError.ts: the typed errors the middleware throws.
ValidationError(message) ==
    [statusCode |-> 400, errorCode |-> "VALIDATION_ERROR", message |-> message]

NotFoundError(resource, identifier) ==
    [statusCode |-> 404, errorCode |-> "NOT_FOUND",
     message |-> <<resource, "with ID", identifier, "not found">>]

ConflictError(message) ==
    [statusCode |-> 409, errorCode |-> "CONFLICT_ERROR", message |-> message]

BadRequestError(message) ==
    [statusCode |-> 400, errorCode |-> "BAD_REQUEST", message |-> message]

\* middleware/errorHandler.ts errorHandler for an AppError: its own status,
\* message and errorCode in the envelope.  path is req.originalUrl.
errorHandler(err, method, path) ==
    [status |-> err.statusCode,
     body |-> [success |-> FALSE,
               error |-> [message |-> err.message,
                          statusCode |-> err.statusCode,
                          errorCode |-> err.errorCode,
                          timestamp |-> "now",
                          path |-> path,
                          method |-> method]]]

\* The year new Date().getFullYear() gives while the requests are served.
CurrentYear == 2026

\* isbnPattern.test(s): ten characters (nine digits and a digit or X),
\* thirteen digits, or four or five hyphen-separated groups of the stated
\* lengths, the last one a single digit or X.
isbnPattern(s) ==
    LET parts == split(s, "-")
        Digits(p, lo, hi) ==
            /\ Len(p) >= lo /\ Len(p) <= hi
            /\ \A i \in 1..Len(p) : IsDigit(p[i])
        Check(p) == Len(p) = 1 /\ (IsDigit(p[1]) \/ p[1] = "X")
    IN  \/ /\ Len(parts) = 1
           /\ \/ Len(s) = 10 /\ Digits(SubSeq(s, 1, 9), 9, 9) /\ Check(<<s[10]>>)
              \/ Digits(s, 13, 13)
        \/ /\ Len(parts) = 4
           /\ Digits(parts[1], 1, 5) /\ Digits(parts[2], 1, 7)
           /\ Digits(parts[3], 1, 6) /\ Check(parts[4])
        \/ /\ Len(parts) = 5
           /\ Digits(parts[1], 3, 3) /\ Digits(parts[2], 1, 5)
           /\ Digits(parts[3], 1, 7) /\ Digits(parts[4], 1, 6) /\ Check(parts[5])

\* A step of the validation chain: either the error handed to next(error), or
\* nothing and the request goes on.
Rejected(err) == [error |-> Some(err)]

\* validateBook that compares the isbn as sent, before it is trimmed, with the
\* stored ones.
validateBook_untrimmedLookup(isUpdate, body, currentBookId, bs, as) ==
    LET title == body.title
        isbn == body.isbn
        publishedYear == body.publishedYear
        authorId == body.authorId
    IN  IF Falsy(title) \/ Falsy(isbn) \/ Falsy(publishedYear) \/ Falsy(authorId)
        THEN Rejected(ValidationError(
                 "All fields (title, isbn, publishedYear, authorId) are required"))
        ELSE IF title.kind # "string" \/ Len(trim(title.value)) = 0
        THEN Rejected(ValidationError("Title must be a non-empty string"))
        ELSE IF isbn.kind # "string" \/ Len(trim(isbn.value)) = 0
        THEN Rejected(ValidationError("ISBN must be a non-empty string"))
        ELSE IF ~isbnPattern(SelectSeq(isbn.value, LAMBDA c : ~IsSpace(c)))
        THEN Rejected(ValidationError(
                 "ISBN must be a valid format (10 or 13 digits, optionally with hyphens)"))
        ELSE IF publishedYear.kind # "number" \/ ~publishedYear.integer
        THEN Rejected(ValidationError("Published year must be an integer"))
        ELSE IF publishedYear.value < 1000 \/ publishedYear.value > CurrentYear
        THEN Rejected(ValidationError(
                 <<"Published year must be between 1000 and", CurrentYear>>))
        ELSE IF authorId.kind # "number" \/ ~authorId.integer
        THEN Rejected(ValidationError("Author ID must be an integer"))
        ELSE IF findAuthor(as, authorId.value) = Absent
        THEN Rejected(NotFoundError("Author", authorId.value))
        ELSE IF \E i \in 1..Len(bs) :
                    /\ bs[i].isbn = isbn.value
                    /\ (isUpdate => bs[i].id # currentBookId)
        THEN Rejected(ConflictError("Book with this ISBN already exists"))
        ELSE [error |-> Absent,
              body  |-> [title |-> trim(title.value),
                         isbn |-> trim(isbn.value),
                         publishedYear |-> publishedYear.value,
                         authorId |-> authorId.value]]

\* middleware/validation.ts validateBook(isUpdate): the first failing check
\* decides the error; a body that passes is handed on with title and isbn
\* trimmed.  currentBookId is parseInt(req.params.id) (read when isUpdate).
validateBook(isUpdate, body, currentBookId, bs, as) ==
    LET title == body.title
        isbn == body.isbn
        publishedYear == body.publishedYear
        authorId == body.authorId
    IN  IF Falsy(title) \/ Falsy(isbn) \/ Falsy(publishedYear) \/ Falsy(authorId)
        THEN Rejected(ValidationError(
                 "All fields (title, isbn, publishedYear, authorId) are required"))
        ELSE IF title.kind # "string" \/ Len(trim(title.value)) = 0
        THEN Rejected(ValidationError("Title must be a non-empty string"))
        ELSE IF isbn.kind # "string" \/ Len(trim(isbn.value)) = 0
        THEN Rejected(ValidationError("ISBN must be a non-empty string"))
        ELSE IF ~isbnPattern(SelectSeq(isbn.value, LAMBDA c : ~IsSpace(c)))
        THEN Rejected(ValidationError(
                 "ISBN must be a valid format (10 or 13 digits, optionally with hyphens)"))
        ELSE IF publishedYear.kind # "number" \/ ~publishedYear.integer
        THEN Rejected(ValidationError("Published year must be an integer"))
        ELSE IF publishedYear.value < 1000 \/ publishedYear.value > CurrentYear
        THEN Rejected(ValidationError(
                 <<"Published year must be between 1000 and", CurrentYear>>))
        ELSE IF authorId.kind # "number" \/ ~authorId.integer
        THEN Rejected(ValidationError("Author ID must be an integer"))
        ELSE IF findAuthor(as, authorId.value) = Absent
        THEN Rejected(NotFoundError("Author", authorId.value))
        ELSE IF \E i \in 1..Len(bs) :
                    /\ bs[i].isbn = trim(isbn.value)
                    /\ (isUpdate => bs[i].id # currentBookId)
        THEN Rejected(ConflictError("Book with this ISBN already exists"))
        ELSE [error |-> Absent,
              body  |-> [title |-> trim(title.value),
                         isbn |-> trim(isbn.value),
                         publishedYear |-> publishedYear.value,
                         authorId |-> authorId.value]]

\* validateBookId: parseInt of the path parameter; NaN and numbers below 1 are
\* refused, anything else goes on as that number.
validateBookId(raw) ==
    LET id == parseInt(Some(raw))
    IN  IF id = NaN \/ id[1] <= 0
        THEN Rejected(BadRequestError("Invalid book ID. ID must be a positive integer"))
        ELSE [error |-> Absent, id |-> id[1]]

\* validateAuthorId
validateAuthorId(raw) ==
    LET authorId == parseInt(Some(raw))
    IN  IF authorId = NaN \/ authorId[1] <= 0
        THEN Rejected(BadRequestError("Invalid author ID. ID must be a positive integer"))
        ELSE [error |-> Absent, id |-> authorId[1]]

\* A getNextBookId that counts the records instead of taking the greatest id.
getNextBookId_countPlusOne(bs) == Len(bs) + 1

\* A getNextBookId that gives the least positive id no book has.
getNextBookId_firstFree(bs) ==
    CHOOSE n \in 1..(Len(bs) + 1) :
        /\ \A i \in 1..Len(bs) : bs[i].id # n
        /\ \A m \in 1..(n - 1) : \E i \in 1..Len(bs) : bs[i].id = m

\* data/index.ts getNextBookId
getNextBookId(bs) ==
    IF Len(bs) > 0 THEN MathMax([i \in 1..Len(bs) |-> bs[i].id]) + 1 ELSE 1

\* A getNextId that counts the authors instead of taking the greatest id.
getNextId_countPlusOne(as) == Len(as) + 1

\* routes/authors.ts getNextId, over the router's own authors array
getNextId(as) ==
    IF Len(as) > 0 THEN MathMax([i \in 1..Len(as) |-> as[i].id]) + 1 ELSE 1

\* A findIndex whose miss is taken as an index from the end: the last record.
findIndex_lastWhenMissing(arr, id) ==
    LET hits == {i \in 1..Len(arr) : arr[i].id = id}
    IN  IF hits = {} THEN Len(arr) ELSE CHOOSE i \in hits : \A j \in hits : i <= j

\* The index of the first record with this id, 0 when there is none
\* (findIndex, which gives -1).
findIndex(arr, id) ==
    LET hits == {i \in 1..Len(arr) : arr[i].id = id}
    IN  IF hits = {} THEN 0 ELSE CHOOSE i \in hits : \A j \in hits : i <= j

\* A splice without its count: everything from the index on goes.
splice_toTheEnd(arr, index) == SubSeq(arr, 1, index - 1)

\* Array.prototype.splice(index, 1)
splice(arr, index) ==
    [i \in 1..(Len(arr) - 1) |-> IF i < index THEN arr[i] ELSE arr[i + 1]]

\* routes/books.ts POST /books.  Each handler below gives the response and the
\* books array it leaves.
postBook(body, bs, as) ==
    With(validateBook(FALSE, body, 0, bs, as), LAMBDA v :
        IF v.error # Absent
        THEN [res |-> errorHandler(v.error[1], "POST", <<"books">>), books |-> bs]
        ELSE With([id |-> getNextBookId(bs)] @@ v.body, LAMBDA newBook :
                 [res |-> [status |-> 201,
                           body |-> [success |-> TRUE,
                                     message |-> "Book created successfully",
                                     data |-> newBook]],
                  books |-> Append(bs, newBook)]))

\* routes/books.ts PUT /books/:id
putBook(raw, body, bs, as) ==
    With(validateBookId(raw), LAMBDA p :
        IF p.error # Absent
        THEN [res |-> errorHandler(p.error[1], "PUT", <<"books", raw>>), books |-> bs]
        ELSE With(validateBook(TRUE, body, p.id, bs, as), LAMBDA v :
        IF v.error # Absent
        THEN [res |-> errorHandler(v.error[1], "PUT", <<"books", raw>>), books |-> bs]
        ELSE With(findIndex(bs, p.id), LAMBDA bookIndex :
        IF bookIndex = 0
        THEN [res |-> errorHandler(NotFoundError("Book", p.id), "PUT", <<"books", raw>>),
              books |-> bs]
        ELSE With([id |-> p.id] @@ v.body, LAMBDA updated :
             [res |-> [status |-> 200,
                       body |-> [success |-> TRUE,
                                 message |-> "Book updated successfully",
                                 data |-> updated]],
              books |-> [bs EXCEPT ![bookIndex] = updated]]))))

\* routes/books.ts DELETE /books/:id
deleteBook(raw, bs) ==
    With(validateBookId(raw), LAMBDA p :
    With(IF p.error = Absent THEN findIndex(bs, p.id) ELSE 0, LAMBDA bookIndex :
        IF p.error # Absent
        THEN [res |-> errorHandler(p.error[1], "DELETE", <<"books", raw>>), books |-> bs]
        ELSE IF bookIndex = 0
        THEN [res |-> errorHandler(NotFoundError("Book", p.id), "DELETE", <<"books", raw>>),
              books |-> bs]
        ELSE [res |-> [status |-> 200,
                       body |-> [success |-> TRUE,
                                 message |-> "Book deleted successfully",
                                 data |-> bs[bookIndex]]],
              books |-> splice(bs, bookIndex)]))

\* routes/books.ts GET /books/:id
getBook(raw, bs) ==
    With(validateBookId(raw), LAMBDA p :
    With(IF p.error = Absent THEN findIndex(bs, p.id) ELSE 0, LAMBDA bookIndex :
        IF p.error # Absent
        THEN errorHandler(p.error[1], "GET", <<"books", raw>>)
        ELSE IF bookIndex = 0
        THEN errorHandler(NotFoundError("Book", p.id), "GET", <<"books", raw>>)
        ELSE [status |-> 200, body |-> [success |-> TRUE, data |-> bs[bookIndex]]]))

\* const allowedSortFields of the three listing handlers, and the sort and
\* pagination they read from req.query.  sortBy and sortOrder carry the field
\* name and the order as whole strings.
sortAndPaginate(data, query) ==
    With(parseSort([sortBy |-> AsOptional(query.sortBy),
                    sortOrder |-> AsOptional(query.sortOrder)],
                   <<"id", "title", "publishedYear", "isbn">>), LAMBDA sortParams :
        [sort |-> sortParams] @@
        paginate(sortBooks(data, sortParams).value,
                 parsePagination([page |-> AsOptional(query.page),
                                  limit |-> AsOptional(query.limit)])))

\* routes/books.ts GET /books
getBooks(query, bs) ==
    With(sortAndPaginate(bs, query), LAMBDA r :
        [status |-> 200,
         body |-> [success |-> TRUE,
                   message |-> <<"Retrieved", Len(r.data), "of", Len(bs), "books">>]
                  @@ r])

\* A GET /books/filter that sorts and paginates the whole collection and
\* filters the page.
getFilter_filtersThePage(query, bs) ==
    With(parseBookFilters(query), LAMBDA filters :
    With(sortAndPaginate(bs, query), LAMBDA r :
        [status |-> 200,
         body |-> [success |-> TRUE,
                   message |-> <<"Found", Len(r.data), "books", filters>>,
                   filters |-> filters]
                  @@ [r EXCEPT !.data = filterBooks(@, filters)]]))

\* routes/books.ts GET /books/filter
getFilter(query, bs) ==
    With(parseBookFilters(query), LAMBDA filters :
    With(filterBooks(bs, filters), LAMBDA filteredBooks :
        [status |-> 200,
         body |-> [success |-> TRUE,
                   message |-> <<"Found", Len(filteredBooks), "books", filters>>,
                   filters |-> filters]
                  @@ sortAndPaginate(filteredBooks, query)]))

\* routes/books.ts GET /books/author/:authorId
getBooksByAuthor(raw, query, bs, as) ==
    With(validateAuthorId(raw), LAMBDA p :
        IF p.error # Absent
        THEN errorHandler(p.error[1], "GET", <<"books", "author", raw>>)
        ELSE With(findAuthor(as, p.id), LAMBDA author :
        IF author = Absent
        THEN errorHandler(NotFoundError("Author", p.id), "GET", <<"books", "author", raw>>)
        ELSE With(SelectSeq(bs, LAMBDA b : b.authorId = p.id), LAMBDA authorBooks :
             With(sortAndPaginate(authorBooks, query), LAMBDA r :
             [status |-> 200,
              body |-> [success |-> TRUE,
                        message |-> <<"Retrieved", Len(r.data), "of", Len(authorBooks),
                                      "books by", author[1].name>>,
                        author |-> [id |-> author[1].id, name |-> author[1].name]]
                       @@ r]))))

\* routes/books.ts GET /books/stats
getStats(bs, as) ==
    [status |-> 200,
     body |-> [success |-> TRUE,
               message |-> "Book statistics retrieved successfully",
               data |-> getBookStats(bs, as)]]

\* middleware/errorHandler.ts notFoundHandler, for a request no route takes.
notFoundHandler(method, path) ==
    errorHandler([statusCode |-> 404, errorCode |-> "ROUTE_NOT_FOUND",
                  message |-> <<"Route", path, "not found">>], method, path)

\* The routes of routes/books.ts in the order they are registered.  A path is
\* the sequence of its segments; in a route, Absent stands for a parameter
\* (:id, :authorId) and Some(s) for the literal segment s.
booksRoutes ==
    <<[method |-> "GET",    path |-> <<>>,                          handler |-> "/"],
      [method |-> "GET",    path |-> <<Some(<<"s", "e", "a", "r", "c", "h">>)>>,              handler |-> "/search"],
      [method |-> "GET",    path |-> <<Some(<<"f", "i", "l", "t", "e", "r">>)>>,              handler |-> "/filter"],
      [method |-> "GET",    path |-> <<Absent>>,                    handler |-> "/:id"],
      [method |-> "POST",   path |-> <<>>,                          handler |-> "/"],
      [method |-> "PUT",    path |-> <<Absent>>,                    handler |-> "/:id"],
      [method |-> "DELETE", path |-> <<Absent>>,                    handler |-> "/:id"],
      [method |-> "GET",    path |-> <<Some(<<"a", "u", "t", "h", "o", "r">>), Absent>>,      handler |-> "/author/:authorId"],
      [method |-> "GET",    path |-> <<Some(<<"s", "t", "a", "t", "s">>)>>,               handler |-> "/stats"]>>

\* Express dispatch: the first registered route with the method whose path
\* pattern matches takes the request (every handler here answers or fails, none
\* passes the request on); "none" when no route matches.
matchRoute(routes, method, path) ==
    LET hits == {i \in 1..Len(routes) :
                    /\ routes[i].method = method
                    /\ Len(routes[i].path) = Len(path)
                    /\ \A k \in 1..Len(path) :
                          routes[i].path[k] = Absent \/ routes[i].path[k] = Some(path[k])}
    IN  IF hits = {} THEN "none"
        ELSE routes[CHOOSE i \in hits : \A j \in hits : i <= j].handler

\* The books router for a GET request: the handler of the route that takes
\* the path answers; a path no route takes goes to the notFoundHandler.
booksRouterGet(path, query, bs, as) ==
    With(matchRoute(booksRoutes, "GET", path), LAMBDA route :
        CASE route = "/" -> getBooks(query, bs)
          [] route = "/search" -> getSearch(bs, as, query)
          [] route = "/filter" -> getFilter(query, bs)
          [] route = "/:id" -> getBook(path[1], bs)
          [] route = "/author/:authorId" -> getBooksByAuthor(path[2], query, bs, as)
          [] route = "/stats" -> getStats(bs, as)
          [] OTHER -> notFoundHandler("GET", <<"books">> \o path))

\* A POST /authors that does not look for the email among the authors.
postAuthor_uncheckedEmail(body, as) ==
    IF Falsy(body.name) \/ Falsy(body.email) \/ Falsy(body.bio)
    THEN [res |-> [status |-> 400,
                   body |-> [success |-> FALSE,
                             message |-> "Name, email, and bio are required"]],
          authors |-> as]
    ELSE LET newAuthor == [id |-> getNextId(as),
                           name |-> body.name.value,
                           email |-> body.email.value,
                           bio |-> body.bio.value]
         IN  [res |-> [status |-> 201,
                       body |-> [success |-> TRUE,
                                 data |-> newAuthor,
                                 message |-> "Author created successfully"]],
              authors |-> Append(as, newAuthor)]

\* routes/authors.ts POST /authors.  Each handler below gives the response and
\* the router's authors array after it.
postAuthor(body, as) ==
    IF Falsy(body.name) \/ Falsy(body.email) \/ Falsy(body.bio)
    THEN [res |-> [status |-> 400,
                   body |-> [success |-> FALSE,
                             message |-> "Name, email, and bio are required"]],
          authors |-> as]
    ELSE IF \E i \in 1..Len(as) : as[i].email = body.email.value
    THEN [res |-> [status |-> 400,
                   body |-> [success |-> FALSE,
                             message |-> "Author with this email already exists"]],
          authors |-> as]
    ELSE LET newAuthor == [id |-> getNextId(as),
                           name |-> body.name.value,
                           email |-> body.email.value,
                           bio |-> body.bio.value]
         IN  [res |-> [status |-> 201,
                       body |-> [success |-> TRUE,
                                 data |-> newAuthor,
                                 message |-> "Author created successfully"]],
              authors |-> Append(as, newAuthor)]

\* routes/authors.ts PUT /authors/:id
putAuthor(raw, body, as) ==
    LET id == parseInt(Some(raw))
        authorIndex == IF id = NaN THEN 0 ELSE findIndex(as, id[1])
        updated == [id |-> id[1],
                    name |-> body.name.value,
                    email |-> body.email.value,
                    bio |-> body.bio.value]
    IN  IF authorIndex = 0
        THEN [res |-> [status |-> 404,
                       body |-> [success |-> FALSE, message |-> "Author not found"]],
              authors |-> as]
        ELSE IF Falsy(body.name) \/ Falsy(body.email) \/ Falsy(body.bio)
        THEN [res |-> [status |-> 400,
                       body |-> [success |-> FALSE,
                                 message |-> "Name, email, and bio are required"]],
              authors |-> as]
        ELSE IF \E i \in 1..Len(as) : as[i].email = body.email.value /\ as[i].id # id[1]
        THEN [res |-> [status |-> 400,
                       body |-> [success |-> FALSE,
                                 message |-> "Another author with this email already exists"]],
              authors |-> as]
        ELSE [res |-> [status |-> 200,
                       body |-> [success |-> TRUE,
                                 data |-> updated,
                                 message |-> "Author updated successfully"]],
              authors |-> [as EXCEPT ![authorIndex] = updated]]

\* A DELETE /authors/:id whose splice has no count: it removes the author and
\* every author after it.
deleteAuthor_spliceToEnd(raw, as) ==
    LET id == parseInt(Some(raw))
        authorIndex == IF id = NaN THEN 0 ELSE findIndex(as, id[1])
    IN  IF authorIndex = 0
        THEN [res |-> [status |-> 404,
                       body |-> [success |-> FALSE, message |-> "Author not found"]],
              authors |-> as]
        ELSE [res |-> [status |-> 200,
                       body |-> [success |-> TRUE, data |-> as[authorIndex]]],
              authors |-> SubSeq(as, 1, authorIndex - 1)]

\* DELETE /authors/:id, which the routers list and routes/authors.ts does not
\* hold: the author with the id is removed from the router's array and nothing
\* else changes; 404 when there is none.
deleteAuthor(raw, as) ==
    LET id == parseInt(Some(raw))
        authorIndex == IF id = NaN THEN 0 ELSE findIndex(as, id[1])
    IN  IF authorIndex = 0
        THEN [res |-> [status |-> 404,
                       body |-> [success |-> FALSE, message |-> "Author not found"]],
              authors |-> as]
        ELSE [res |-> [status |-> 200,
                       body |-> [success |-> TRUE, data |-> as[authorIndex]]],
              authors |-> splice(as, authorIndex)]

----------------------------------------------------------------------------
(* The store under requests: from the seeded arrays, any sequence of        *)
(* requests to the two routers.  Requests that fail and requests that read  *)
(* are unlimited; at most MaxRequests requests that write are served.       *)

MaxRequests == 3

\* A new book of a seeded author, its title and isbn padded with blanks.
BodyMisery ==
    [title |-> Str(<<" ", "M", "i", "s", "e", "r", "y", " ">>), isbn |-> Str(<<" ", "0", "-", "1", "9", "-", "8", "5", "2", "6", "6", "3", "-", "6">>),
     publishedYear |-> Number(1987), authorId |-> Number(2)]

\* The isbn of the first seeded book followed by a blank, in a valid body.
BodyTakenIsbn == [BodyMisery EXCEPT !.isbn = Str(SeedBook1.isbn \o <<" ">>)]

\* The same with an authorId no author has.
BodyTakenIsbnNoAuthor == [BodyTakenIsbn EXCEPT !.authorId = Number(99)]

\* A new book of author 4, who exists once POST /authors has created them.
BodyOfAuthor4 ==
    [BodyMisery EXCEPT !.isbn = Str(BookWithX.isbn), !.authorId = Number(4)]

\* The bodies sent to POST /books: the four above and one with authorId 0.
BookBodies ==
    {BodyMisery, BodyTakenIsbn, BodyTakenIsbnNoAuthor, BodyOfAuthor4,
     [BodyMisery EXCEPT !.authorId = Number(0)]}

\* The PUT /books/:id requests: the :id as written in the path, and the body.
BookUpdates ==
    {<<<<"1">>, BodyTakenIsbn>>, <<<<"2">>, BodyTakenIsbn>>,
     <<<<"1">>, BodyMisery>>, <<<<"9">>, BodyMisery>>,
     <<<<"2">>, BodyTakenIsbnNoAuthor>>, <<<<"1">>, BodyOfAuthor4>>,
     <<<<"9">>, BodyTakenIsbn>>}

\* The :id of DELETE /books/:id.
BookIdParams == {<<"4">>, <<"5">>, <<"6">>, <<"9">>}

\* The GET requests to the books router: the path below /books with the
\* query.  Each path without a query, and /filter with the books of author 1
\* by title downwards, the second page of one, and with the books from 1980 on
\* by year.
BookGets ==
    {<<path, EmptyQuery>> :
        path \in {<<>>, <<<<"s", "t", "a", "t", "s">>>>, <<<<"s", "e", "a", "r", "c", "h">>>>, <<<<"f", "i", "l", "t", "e", "r">>>>, <<<<"1">>>>, <<<<"9">>>>,
                  <<<<"a", "u", "t", "h", "o", "r">>, <<"3">>>>, <<<<"s", "t", "a", "t", "s">>, <<"s", "t", "a", "t", "s">>>>}}
    \cup {<<<<<<"f", "i", "l", "t", "e", "r">>>>, query>> :
        query \in {[EmptyQuery EXCEPT !.authorId = Str(<<"1">>),
                                      !.sortBy = Str("title"),
                                      !.sortOrder = Str("desc"),
                                      !.page = Str(<<"2">>),
                                      !.limit = Str(<<"1">>)],
                   [EmptyQuery EXCEPT !.publishedYearFrom = Str(<<"1", "9", "8", "0">>),
                                      !.sortBy = Str("publishedYear")]}}

\* A new author.
BodyOrwell ==
    [name |-> Str(<<"G", "e", "o", "r", "g", "e", " ", "O", "r", "w", "e", "l", "l">>), email |-> Str(<<"o", "r", "w", "e", "l", "l", "@", "e", "x", "a", "m", "p", "l", "e", ".", "c", "o", "m">>), bio |-> Str(<<"E", "s", "s", "a", "y", "i", "s", "t">>)]

\* The same with the email of the first seeded author.
BodyTakenEmail == [BodyOrwell EXCEPT !.email = Str(SeedAuthor1.email)]

\* The bodies sent to POST /authors: the two above, one of another email and
\* one without bio.
AuthorBodies ==
    {BodyOrwell, BodyTakenEmail, [BodyOrwell EXCEPT !.email = Str(<<"b", "l", "a", "i", "r", "@", "e", "x", "a", "m", "p", "l", "e", ".", "c", "o", "m">>)],
     [BodyOrwell EXCEPT !.bio = Undefined]}

\* The PUT /authors/:id requests.
AuthorUpdates ==
    {<<<<"1">>, BodyTakenEmail>>, <<<<"2">>, BodyTakenEmail>>, <<<<"9">>, BodyOrwell>>}

\* The :id of DELETE /authors/:id.
AuthorIdParams == {<<"3">>, <<"4">>}

Init ==
    /\ books = SeedBooks
    /\ authors = SeedAuthors
    /\ routeAuthors = SeedAuthors
    /\ issued = NoneIssued
    /\ served = 0
    /\ req = [op |-> "none"]
    /\ res = NotRun

\* A request to the books router is served: the response is sent and the
\* books array is what the handler leaves.
ServeBooks(method, path, query, body, r) ==
    /\ r.res.status >= 400 \/ method = "GET" \/ served < MaxRequests
    /\ req' = [op |-> "request", router |-> "books", method |-> method,
               path |-> path, query |-> query, body |-> body]
    /\ res' = [done |-> TRUE, value |-> r.res]
    /\ books' = r.books
    /\ issued' = IF method = "POST" /\ r.res.status = 201
                 THEN [issued EXCEPT !.books = Append(@, r.res.body.data.id)]
                 ELSE issued
    /\ served' = IF method # "GET" /\ r.res.status < 400 THEN served + 1 ELSE served
    /\ UNCHANGED <<authors, routeAuthors>>

BooksGet ==
    \E get \in BookGets :
        ServeBooks("GET", get[1], get[2], Undefined,
                   [res |-> booksRouterGet(get[1], get[2], books, authors),
                    books |-> books])

BooksPost ==
    \E body \in BookBodies :
        /\ matchRoute(booksRoutes, "POST", <<>>) = "/"
        /\ ServeBooks("POST", <<>>, EmptyQuery, body, postBook(body, books, authors))

BooksPut ==
    \E u \in BookUpdates :
        /\ matchRoute(booksRoutes, "PUT", <<u[1]>>) = "/:id"
        /\ ServeBooks("PUT", <<u[1]>>, EmptyQuery, u[2], putBook(u[1], u[2], books, authors))

BooksDelete ==
    \E raw \in BookIdParams :
        /\ matchRoute(booksRoutes, "DELETE", <<raw>>) = "/:id"
        /\ ServeBooks("DELETE", <<raw>>, EmptyQuery, Undefined, deleteBook(raw, books))

\* A request to the authors router is served.
ServeAuthors(method, path, body, r) ==
    /\ r.res.status >= 400 \/ served < MaxRequests
    /\ req' = [op |-> "request", router |-> "authors", method |-> method,
               path |-> path, body |-> body]
    /\ res' = [done |-> TRUE, value |-> r.res]
    /\ routeAuthors' = r.authors
    /\ issued' = IF method = "POST" /\ r.res.status = 201
                 THEN [issued EXCEPT !.authors = Append(@, r.res.body.data.id)]
                 ELSE issued
    /\ served' = IF r.res.status < 400 THEN served + 1 ELSE served
    /\ UNCHANGED <<books, authors>>

AuthorsPost ==
    \E body \in AuthorBodies : ServeAuthors("POST", <<>>, body, postAuthor(body, routeAuthors))

AuthorsPut ==
    \E u \in AuthorUpdates :
        ServeAuthors("PUT", <<u[1]>>, u[2], putAuthor(u[1], u[2], routeAuthors))

AuthorsDelete ==
    \E raw \in AuthorIdParams :
        ServeAuthors("DELETE", <<raw>>, Undefined, deleteAuthor(raw, routeAuthors))

Next ==
    \/ BooksGet \/ BooksPost \/ BooksPut \/ BooksDelete
    \/ AuthorsPost \/ AuthorsPut \/ AuthorsDelete

Spec == Init /\ [][Next]_vars

\* The same requests from the seeded store and from the stores that deleting
\* every book, every author, or both, leaves.
InitAnyStore ==
    /\ books \in {SeedBooks, <<>>}
    /\ authors = SeedAuthors
    /\ routeAuthors \in {SeedAuthors, <<>>}
    /\ issued = NoneIssued
    /\ served = 0
    /\ req = [op |-> "none"]
    /\ res = NotRun

SpecAnyStore == InitAnyStore /\ [][Next]_vars

\* The request just served went to this router with this method.
Served(router, method) ==
    /\ req.op = "request" /\ req.router = router /\ req.method = method
    /\ res.done

\* C11: GET /books/stats is answered by the statistics handler with 200, and
\* on the seeded store its data has publishedYearRange {1934, 1998} and
\* averagePublishedYear 1978.
C11_StatsDispatched ==
    (Served("books", "GET") /\ req.path = <<<<"s", "t", "a", "t", "s">>>>) =>
        /\ res.value.status = 200
        /\ (books = SeedBooks /\ authors = SeedAuthors) =>
              /\ res.value.body.data.publishedYearRange =
                     [earliest |-> 1934, latest |-> 1998]
              /\ res.value.body.data.averagePublishedYear = 1978

\* The ids of the records of an array.
Ids(arr) == {arr[i].id : i \in 1..Len(arr)}

\* The records of an array differ pairwise in what key gives.
Distinct(arr, key(_)) ==
    \A i, j \in 1..Len(arr) : i # j => key(arr[i]) # key(arr[j])

\* C13: in every state reachable from the seeded store by create, update and
\* delete requests, the ids of the books are pairwise distinct and positive,
\* and so are the ids of the authors (in both author arrays).
C13_IdsDistinctPositive ==
    /\ Distinct(books, LAMBDA b : b.id) /\ \A id \in Ids(books) : id > 0
    /\ Distinct(routeAuthors, LAMBDA a : a.id) /\ \A id \in Ids(routeAuthors) : id > 0
    /\ Distinct(authors, LAMBDA a : a.id) /\ \A id \in Ids(authors) : id > 0

\* A book and an author have been created, the fourth seeded book has been
\* deleted and the books are five again.
C13_Witness ==
    /\ served = 3
    /\ issued.books # <<>> /\ issued.authors # <<>>
    /\ 4 \notin Ids(books) /\ 6 \in Ids(books) /\ Len(books) = 5
    /\ 4 \in Ids(routeAuthors)

\* C14: in every state reachable from the seeded store by create, update and
\* delete requests, no two books have the same isbn and no two authors have
\* the same email.
C14_IsbnEmailUnique ==
    /\ Distinct(books, LAMBDA b : b.isbn)
    /\ Distinct(routeAuthors, LAMBDA a : a.email)
    /\ Distinct(authors, LAMBDA a : a.email)

\* A fourth author has been created and a POST /authors with the email of the
\* first seeded author has just been refused.
C14_Witness ==
    /\ Served("authors", "POST")
    /\ req.body = BodyTakenEmail
    /\ res.value.status >= 400
    /\ Len(routeAuthors) = 4

\* The greatest number of a non-empty set.
MaxOf(S) == CHOOSE m \in S : \A x \in S : x <= m

\* The last element of a non-empty sequence.
Last(seq) == seq[Len(seq)]

\* The request served before this step was a DELETE to the router that removed
\* the record with the greatest id (coll is the array it left).
DeletedMax(router, coll) ==
    /\ Served(router, "DELETE")
    /\ res.value.status = 200
    /\ \A id \in Ids(coll) : id < res.value.body.data.id

Increasing(ids) == \A i, j \in 1..Len(ids) : i < j => ids[i] < ids[j]

\* C16: over any sequence of create and delete requests on one collection,
\* each newly created record's id is strictly greater than the id given to
\* every record created before it in that collection.
C16_Monotonic == Increasing(issued.books) /\ Increasing(issued.authors)

\* C16, amended: each newly created record's id is strictly greater than the
\* id of every record that is in the collection when it is created (the id of
\* a record deleted since may be given again).
C16_AboveCurrent ==
    [][/\ issued'.books # issued.books =>
            \A id \in Ids(books) : id < Last(issued'.books)
       /\ issued'.authors # issued.authors =>
            \A id \in Ids(routeAuthors) : id < Last(issued'.authors)]_vars

\* Book 6 created, deleted, and a book created again with id 6, above the five
\* seeded ones.
C16_Witness ==
    /\ Served("books", "POST") /\ res.value.status = 201
    /\ issued.books = <<6, 6>>
    /\ Ids(books) = {1, 2, 3, 4, 5, 6}

\* This step serves a request with this method to this router.
Serving(router, method) ==
    req'.op = "request" /\ req'.router = router /\ req'.method = method

\* The trimmed isbn of the body is the isbn of a book whose id is not in self.
IsbnOfOther(body, bs, self) ==
    /\ body.isbn.kind = "string"
    /\ \E i \in 1..Len(bs) : bs[i].isbn = trim(body.isbn.value) /\ bs[i].id \notin self

\* Title, publishedYear and authorId of the body are valid: a non-blank title,
\* a year from 1000 to the current one, the id of an author.
RestIsValid(body, as) ==
    /\ body.title.kind = "string" /\ trim(body.title.value) # <<>>
    /\ body.publishedYear.kind = "number" /\ body.publishedYear.integer
    /\ body.publishedYear.value >= 1000 /\ body.publishedYear.value <= CurrentYear
    /\ body.authorId.kind = "number" /\ body.authorId.integer
    /\ body.authorId.value \in Ids(as)

\* The response is the Conflict error.
IsConflict(response) ==
    /\ response.status = 409
    /\ response.body.error.errorCode = "CONFLICT_ERROR"

\* The id the :id of the request being served stands for, as a set (empty when
\* it is no number).
ParamId == {n \in 1..9 : parseInt(Some(req'.path[1])) = Num(n)}

\* C17: POST /books whose trimmed isbn is the isbn of an existing book fails
\* with Conflict (409, CONFLICT_ERROR) and leaves the books unchanged; PUT
\* /books/:id fails the same way when the trimmed isbn is that of a different
\* book, and is not rejected for keeping the book's own isbn.
C17_IsbnConflict ==
    [][/\ (Serving("books", "POST") /\ IsbnOfOther(req'.body, books, {})) =>
            IsConflict(res'.value) /\ books' = books
       /\ (Serving("books", "PUT") /\ IsbnOfOther(req'.body, books, ParamId)) =>
            IsConflict(res'.value) /\ books' = books
       /\ (Serving("books", "PUT") /\ ~IsbnOfOther(req'.body, books, ParamId)) =>
            res'.value.status # 409]_vars

\* C17, amended: with a body that is valid otherwise (title, publishedYear and
\* the authorId of an existing author), POST /books whose trimmed isbn is the
\* isbn of an existing book fails with Conflict (409, CONFLICT_ERROR) and
\* leaves the books unchanged; PUT /books/:id fails the same way when the
\* trimmed isbn is that of a different book, and succeeds when it is the own
\* isbn of the book with that id.
C17_IsbnConflictOfValidBody ==
    [][/\ (/\ Serving("books", "POST")
           /\ RestIsValid(req'.body, authors)
           /\ IsbnOfOther(req'.body, books, {})) =>
            IsConflict(res'.value) /\ books' = books
       /\ (/\ Serving("books", "PUT")
           /\ RestIsValid(req'.body, authors)
           /\ IsbnOfOther(req'.body, books, ParamId)) =>
            IsConflict(res'.value) /\ books' = books
       /\ (/\ Serving("books", "PUT")
           /\ RestIsValid(req'.body, authors)
           /\ ~IsbnOfOther(req'.body, books, ParamId)
           /\ IsbnOfOther(req'.body, books, {})) =>
            res'.value.status = 200]_vars

\* A POST /books with the isbn of the first seeded book followed by a blank,
\* valid otherwise, has been refused with Conflict.
C17_Witness ==
    /\ Served("books", "POST")
    /\ req.body = BodyTakenIsbn
    /\ IsConflict(res.value)
    /\ books = SeedBooks

\* The email of the body is the email of an author whose id is not in self.
EmailOfOther(body, as, self) ==
    /\ body.email.kind = "string"
    /\ \E i \in 1..Len(as) : as[i].email = body.email.value /\ as[i].id \notin self

\* C18: creating an author, or updating an author, with the email of another
\* existing author is rejected with status 409 and leaves the authors
\* unchanged.
C18_EmailConflict ==
    [][/\ (Serving("authors", "POST") /\ EmailOfOther(req'.body, routeAuthors, {})) =>
            res'.value.status = 409 /\ routeAuthors' = routeAuthors
       /\ (Serving("authors", "PUT") /\ EmailOfOther(req'.body, routeAuthors, ParamId)) =>
            res'.value.status = 409 /\ routeAuthors' = routeAuthors]_vars

\* The authorId of the body is the id of an author of as.
AuthorExists(body, as) ==
    /\ body.authorId.kind = "number" /\ body.authorId.integer
    /\ body.authorId.value \in Ids(as)

\* C19: POST /books and PUT /books/:id with an authorId that matches no
\* existing author fail with 404 or 400 and leave the books unchanged; a
\* successful create or update stores a book whose authorId is the id of an
\* author that exists at that moment.
C19_AuthorMustExist ==
    [][(Serving("books", "POST") \/ Serving("books", "PUT")) =>
        /\ ~AuthorExists(req'.body, authors) =>
              res'.value.status \in {400, 404} /\ books' = books
        /\ res'.value.status \in {200, 201} =>
              /\ res'.value.body.data.authorId \in Ids(authors)
              /\ \E i \in 1..Len(books') : books'[i] = res'.value.body.data]_vars

\* A POST /books for author 99 has been answered 404 and the books are the
\* seeded ones still.
C19_Witness ==
    /\ Served("books", "POST")
    /\ req.body.authorId = Number(99)
    /\ res.value.status = 404
    /\ books = SeedBooks

\* C20: after POST /authors has succeeded and returned an author with id k, a
\* POST /books with an otherwise valid body and authorId k succeeds.
C20_SingleSourceOfTruth ==
    [][(/\ Serving("books", "POST")
        /\ req'.body.title.kind = "string" /\ trim(req'.body.title.value) # <<>>
        /\ req'.body.publishedYear.kind = "number" /\ req'.body.publishedYear.integer
        /\ req'.body.publishedYear.value >= 1000
        /\ req'.body.publishedYear.value <= CurrentYear
        /\ req'.body.isbn.kind = "string"
        /\ isbnPattern(trim(req'.body.isbn.value))
        /\ ~IsbnOfOther(req'.body, books, {})
        /\ AuthorExists(req'.body, routeAuthors)
        /\ \E i \in 1..Len(issued.authors) : issued.authors[i] = req'.body.authorId.value) =>
            res'.value.status = 201]_vars

\* The request being served is to /books/:id with a well-formed positive :id
\* that no book has.
ServingMissingBook(method) ==
    /\ Serving("books", method)
    /\ Len(req'.path) = 1
    /\ ParamId # {}
    /\ ParamId \cap Ids(books) = {}

\* The response is NotFound for the book of the :id being served.
IsBookNotFound(response) ==
    /\ response.status = 404
    /\ response.body.error.errorCode = "NOT_FOUND"
    /\ \E n \in ParamId : response.body.error.message = NotFoundError("Book", n).message

C22_ErrorEnvelope ==
    (req.op = "request" /\ res.done /\ res.value.status >= 400) =>
        /\ DOMAIN res.value.body = {"success", "error"}
        /\ res.value.body.success = FALSE
        /\ DOMAIN res.value.body.error =
             {"message", "statusCode", "errorCode", "timestamp", "path", "method"}
        /\ res.value.body.error.statusCode = res.value.status

(***************************************************************************)
(* errorHandler applied to the errors a handler or a middleware can hand   *)
(* to next, in each setting of NODE_ENV.                                   *)
(***************************************************************************)

\* An errorHandler that reports an unknown error with the error's own message.
errorHandlerIn_ownMessage(nodeEnv, err, method, path) ==
    With(IF err.instanceofAppError
         THEN errorHandler([statusCode |-> err.statusCode,
                            errorCode |-> IF err.errorCode = Absent THEN "APP_ERROR"
                                          ELSE err.errorCode[1],
                            message |-> err.message], method, path)
         ELSE IF err.name = "ValidationError"
         THEN errorHandler([statusCode |-> 400, errorCode |-> "VALIDATION_ERROR",
                            message |-> err.message], method, path)
         ELSE IF err.name = "CastError"
         THEN errorHandler([statusCode |-> 400, errorCode |-> "INVALID_ID",
                            message |-> "Invalid ID format"], method, path)
         ELSE IF err.name = "SyntaxError" /\ err.hasBody
         THEN errorHandler([statusCode |-> 400, errorCode |-> "INVALID_JSON",
                            message |-> "Invalid JSON payload"], method, path)
         ELSE errorHandler([statusCode |-> 500, errorCode |-> "INTERNAL_SERVER_ERROR",
                            message |-> err.message], method, path),
         LAMBDA r : IF nodeEnv = Some("development")
                    THEN [r EXCEPT !.body.error = @ @@ [stack |-> err.stack]]
                    ELSE r)

\* middleware/errorHandler.ts errorHandler, whole: the status, message and
\* errorCode by the kind of the error, and the stack when NODE_ENV is
\* development.  nodeEnv is process.env.NODE_ENV, Absent when it is not set.
errorHandlerIn(nodeEnv, err, method, path) ==
    With(IF err.instanceofAppError
         THEN errorHandler([statusCode |-> err.statusCode,
                            errorCode |-> IF err.errorCode = Absent THEN "APP_ERROR"
                                          ELSE err.errorCode[1],
                            message |-> err.message], method, path)
         ELSE IF err.name = "ValidationError"
         THEN errorHandler([statusCode |-> 400, errorCode |-> "VALIDATION_ERROR",
                            message |-> err.message], method, path)
         ELSE IF err.name = "CastError"
         THEN errorHandler([statusCode |-> 400, errorCode |-> "INVALID_ID",
                            message |-> "Invalid ID format"], method, path)
         ELSE IF err.name = "SyntaxError" /\ err.hasBody
         THEN errorHandler([statusCode |-> 400, errorCode |-> "INVALID_JSON",
                            message |-> "Invalid JSON payload"], method, path)
         ELSE errorHandlerUnexpected(method, path),
         LAMBDA r : IF nodeEnv = Some("development")
                    THEN [r EXCEPT !.body.error = @ @@ [stack |-> err.stack]]
                    ELSE r)

\* The errors handed to errorHandler: AppErrors of the classes of
\* errors/AppError.ts (one made with a message only, one without errorCode),
\* and errors that are no AppError: a TypeError, a SyntaxError of the body
\* parser (with body) and one of the program (without), and errors that bear
\* the names ValidationError and CastError without being AppErrors.
ThrownErrors ==
    {[instanceofAppError |-> TRUE, name |-> "Error", hasBody |-> FALSE,
      statusCode |-> e.statusCode, errorCode |-> Some(e.errorCode),
      message |-> e.message, stack |-> "at validateBook" ] :
        e \in {ValidationError("Title is required"),
               [statusCode |-> 404, errorCode |-> "NOT_FOUND",
                message |-> "Book with ID 9 not found"],
               ConflictError("Book with this ISBN already exists"),
               BadRequestError("Invalid book ID"),
               [statusCode |-> 404, errorCode |-> "ROUTE_NOT_FOUND",
                message |-> "Route /api/nope not found"]}}
    \cup {[instanceofAppError |-> TRUE, name |-> "Error", hasBody |-> FALSE,
           statusCode |-> c, errorCode |-> Absent,
           message |-> "Out of service", stack |-> "at maintenance" ] : c \in {500, 503}}
    \cup {[instanceofAppError |-> FALSE, name |-> n[1], hasBody |-> n[2],
           statusCode |-> 0, errorCode |-> Absent,
           message |-> n[3], stack |-> "at internal/secret.ts" ] :
             n \in {<<"TypeError", FALSE, "Cannot read properties of undefined">>,
                    <<"SyntaxError", TRUE, "Unexpected token } in JSON at position 9">>,
                    <<"SyntaxError", FALSE, "Unexpected token } in JSON at position 9">>,
                    <<"ValidationError", FALSE, "Path secret is required">>,
                    <<"CastError", FALSE, "Cast to ObjectId failed">>,
                    <<"Error", TRUE, "connect ECONNREFUSED 10.0.0.7:5432">>}}

InitErrorHandler ==
    /\ books = SeedBooks
    /\ authors = SeedAuthors
    /\ routeAuthors = SeedAuthors
    /\ issued = NoneIssued
    /\ served = 0
    /\ req \in [op : {"errorHandler"},
                nodeEnv : {Absent, Some("development"), Some("production"), Some("test")},
                err : ThrownErrors,
                method : {"GET", "POST"},
                path : {"/api/books", "/api/nope"}]
    /\ res = NotRun

\* errorHandler(err, req, res, next)
ErrorHandler ==
    /\ req.op = "errorHandler"
    /\ ~res.done
    /\ res' = [done |-> TRUE,
               value |-> errorHandlerIn(req.nodeEnv, req.err, req.method, req.path)]
    /\ UNCHANGED <<books, authors, routeAuthors, issued, served, req>>

SpecErrorHandler == InitErrorHandler /\ [][ErrorHandler]_vars

\* The error of the call is one errorHandler knows by its name without its
\* being an AppError.
KnownByName(err) ==
    \/ err.name = "ValidationError"
    \/ err.name = "CastError"
    \/ err.name = "SyntaxError" /\ err.hasBody

\* The report of an AppError: its own status, message and errorCode
\* (APP_ERROR for one that has none).
OwnReport(err, response) ==
    /\ response.status = err.statusCode
    /\ response.body.error.statusCode = err.statusCode
    /\ response.body.error.message = err.message
    /\ response.body.error.errorCode =
          IF err.errorCode = Absent THEN "APP_ERROR" ELSE err.errorCode[1]

\* The report of an unexpected error: 500 and the generic message.
GenericReport(err, response) ==
    /\ response.status = 500
    /\ response.body.error.statusCode = 500
    /\ response.body.error.message = "Internal Server Error"
    /\ response.body.error.message # err.message

\* The stack is in the response exactly when NODE_ENV is development.
StackOnlyInDevelopment(nodeEnv, response) ==
    ("stack" \in DOMAIN response.body.error) <=> (nodeEnv = Some("development"))

\* C23: errorHandler reports every error that is no AppError with status 500
\* and the generic message Internal Server Error, never with the error's own
\* message; the stack is included only when NODE_ENV is development; every
\* AppError is reported with its own statusCode, message and errorCode.
C23_UnexpectedIsGeneric ==
    (req.op = "errorHandler" /\ res.done) =>
        /\ IF req.err.instanceofAppError
           THEN OwnReport(req.err, res.value)
           ELSE GenericReport(req.err, res.value)
        /\ StackOnlyInDevelopment(req.nodeEnv, res.value)

\* C23, amended: errorHandler reports every error that is no AppError and is
\* not one it knows by name (ValidationError, CastError, a SyntaxError with a
\* body: these get 400) with status 500 and the generic message Internal
\* Server Error, never with the error's own message; the stack is included
\* only when NODE_ENV is development; every AppError is reported with its own
\* statusCode, message and errorCode.
C23_UnknownIsGeneric ==
    (req.op = "errorHandler" /\ res.done) =>
        /\ IF req.err.instanceofAppError
           THEN OwnReport(req.err, res.value)
           ELSE IF KnownByName(req.err)
           THEN res.value.status = 400
           ELSE GenericReport(req.err, res.value)
        /\ StackOnlyInDevelopment(req.nodeEnv, res.value)

\* A TypeError has been reported in production: 500, generic, no stack.
C23_Witness ==
    /\ req.op = "errorHandler" /\ res.done
    /\ req.err.name = "TypeError"
    /\ req.nodeEnv = Some("production")
    /\ res.value.status = 500
    /\ res.value.body.error.errorCode = "INTERNAL_SERVER_ERROR"
    /\ "stack" \notin DOMAIN res.value.body.error

\* C24: DELETE /authors/:id for an existing author removes exactly that author
\* from the authors and leaves the books unchanged, so the books whose
\* authorId is the deleted id stay stored (no cascade).
C24_DeleteAuthorNoCascade ==
    [][(/\ Serving("authors", "DELETE")
        /\ ParamId \cap Ids(routeAuthors) # {}) =>
            /\ res'.value.status = 200
            /\ routeAuthors' = SelectSeq(routeAuthors, LAMBDA a : a.id \notin ParamId)
            /\ Len(routeAuthors') = Len(routeAuthors) - 1
            /\ books' = books
            /\ authors' = authors]_vars

\* Author 3 has been deleted while author 4 exists, and a book of author 3 is
\* still stored.
C24_Witness ==
    /\ Served("authors", "DELETE")
    /\ req.path = <<<<"3">>>>
    /\ res.value.status = 200
    /\ Ids(routeAuthors) = {1, 2, 4}
    /\ \E i \in 1..Len(books) : books[i].authorId = 3

\* C25: filtering is idempotent: filterBooks(filterBooks(books, f), f) equals
\* filterBooks(books, f) for every book sequence and every filter.
C25_FilterIdempotent ==
    (req.op = "filterBooks" /\ res.done) =>
        filterBooks(res.value, req.filters) = res.value

\* A filter that has kept the first of two or more books and rejected another.
C25_Witness ==
    /\ req.op = "filterBooks" /\ res.done
    /\ Len(books) >= 2
    /\ res.value # <<>>
    /\ res.value # books
    /\ res.value[1] = books[1]

\* C27: GET /books/filter filters, then sorts, then paginates the current
\* books: the data of the response is paginate(sortBooks(filterBooks(books,
\* filters), sort), pagination).data, and pagination.total is the number of
\* books that pass the filter, not the size of the collection.
C27_FilterSortPaginate ==
    (Served("books", "GET") /\ req.path = <<<<"f", "i", "l", "t", "e", "r">>>>) =>
        LET filters    == parseBookFilters(req.query)
            passing    == SelectSeq(books, LAMBDA b : filterKeeps(b, filters))
            sortParams == parseSort([sortBy |-> AsOptional(req.query.sortBy),
                                     sortOrder |-> AsOptional(req.query.sortOrder)],
                                    BookSortFields)
            pagination == parsePagination([page |-> AsOptional(req.query.page),
                                           limit |-> AsOptional(req.query.limit)])
            page       == paginate(sortBooks(passing, sortParams).value, pagination)
        IN  /\ res.value.status = 200
            /\ res.value.body.data = page.data
            /\ res.value.body.pagination = page.pagination
            /\ res.value.body.pagination.total = Len(passing)

\* The books of author 1 by title downwards, second page of one: one of the
\* two that pass the filter, of five or more books.
C27_Witness ==
    /\ Served("books", "GET") /\ req.path = <<<<"f", "i", "l", "t", "e", "r">>>>
    /\ req.query.authorId = Str(<<"1">>)
    /\ res.value.body.pagination.total = 2
    /\ res.value.body.pagination.page = 2
    /\ Len(res.value.body.data) = 1
    /\ res.value.body.data[1].authorId = 1
    /\ Len(books) >= 5

\* The text of a raw query value where a string is wanted: the string, the
\* elements of an array joined by commas, nothing for a missing parameter.
RECURSIVE JoinComma(_)
JoinComma(arr) ==
    IF arr = <<>> THEN <<>>
    ELSE IF Len(arr) = 1 THEN arr[1]
    ELSE arr[1] \o <<",">> \o JoinComma(Tail(arr))

RawText(v) ==
    IF v.kind = "string" THEN Some(v.value)
    ELSE IF v.kind = "array" THEN Some(JoinComma(v.value))
    ELSE Absent

\* C28: in the result of parseBookFilters each of authorId, publishedYear,
\* publishedYearFrom and publishedYearTo is there exactly when the raw value
\* parses as an integer, with that integer; title and isbn are there exactly
\* when supplied as non-empty strings, with the trimmed input; there is no
\* other key, and malformed input does not make the function fail.
C28_ParseBookFilters ==
    (req.op = "parseBookFilters" /\ res.done) =>
        /\ DOMAIN res.value = {"authorId", "publishedYear", "publishedYearFrom",
                               "publishedYearTo", "title", "isbn"}
        /\ \A k \in {"authorId", "publishedYear", "publishedYearFrom", "publishedYearTo"} :
              res.value[k] = parseInt(RawText(req.query[k]))
        /\ \A k \in {"title", "isbn"} :
              res.value[k] = IF req.query[k].kind = "string" /\ req.query[k].value # <<>>
                             THEN Some(trim(req.query[k].value))
                             ELSE Absent

\* authorId 1a has given 1, publishedYear 0 has given 0, publishedYearFrom x
\* has given nothing, the title has been trimmed and no isbn was sent.
C28_Witness ==
    /\ req.op = "parseBookFilters" /\ res.done
    /\ req.query.authorId = Str(<<"1", "a">>) /\ res.value.authorId = Some(1)
    /\ req.query.publishedYear = Str(<<"0">>) /\ res.value.publishedYear = Some(0)
    /\ req.query.publishedYearFrom = Str(<<"x">>) /\ res.value.publishedYearFrom = Absent
    /\ req.query.title = Str(<<" ", "i", "t", " ">>) /\ res.value.title = Some(<<"i", "t">>)
    /\ req.query.isbn = Undefined /\ res.value.isbn = Absent

\* The sum of the values of a function with numbers as values.
RECURSIVE SumOfValues(_)
SumOfValues(f) ==
    IF DOMAIN f = {} THEN 0
    ELSE LET k == CHOOSE x \in DOMAIN f : TRUE
         IN  f[k] + SumOfValues([x \in DOMAIN f \ {k} |-> f[x]])

\* C29: getBookStats on a non-empty collection: booksByAuthor has an entry for
\* author id a exactly when an author with id a is there and a book has
\* authorId a, with the number of these books as count; a book whose authorId
\* is the id of no author counts in totalBooks and booksByYear and in no entry
\* of booksByAuthor; the counts of booksByYear add up to totalBooks.
C29_StatsByAuthor ==
    (req.op = "getBookStats" /\ res.done /\ books # <<>>) =>
        LET byAuthor == res.value.booksByAuthor
            byYear   == res.value.booksByYear
            BooksOf(a) == {i \in 1..Len(books) : books[i].authorId = a}
        IN  /\ DOMAIN byAuthor = {a \in Ids(authors) : BooksOf(a) # {}}
            /\ \A a \in DOMAIN byAuthor : byAuthor[a].count = Cardinality(BooksOf(a))
            /\ \A i \in 1..Len(books) :
                  /\ books[i].authorId \notin Ids(authors) =>
                        books[i].authorId \notin DOMAIN byAuthor
                  /\ books[i].publishedYear \in DOMAIN byYear
            /\ res.value.totalBooks = Len(books)
            /\ SumOfValues(byYear) = res.value.totalBooks
            /\ SumOfValues([a \in DOMAIN byAuthor |-> byAuthor[a].count]) =
                  Cardinality({i \in 1..Len(books) : books[i].authorId \in Ids(authors)})

\* The statistics of a book of author 9, whom no author list has, and a book
\* of a seeded author: two books, one entry.
C29_Witness ==
    /\ req.op = "getBookStats" /\ res.done
    /\ authors = SeedAuthors
    /\ Len(books) = 2
    /\ books[1].authorId = 9
    /\ books[2].authorId \in Ids(authors)
    /\ res.value.totalBooks = 2
    /\ DOMAIN res.value.booksByAuthor = {books[2].authorId}

\* C30: the book mutations keep the order of insertion and touch one record: a
\* successful POST /books appends the new book; a successful PUT /books/:id
\* replaces the book where it is, keeps its id, the length and every other
\* book; a successful DELETE /books/:id removes that book alone and keeps the
\* order of the others; no request to the books changes the authors.
C30_OneRecordInPlace ==
    [][/\ (Serving("books", "POST") /\ res'.value.status = 201) =>
            books' = Append(books, res'.value.body.data)
       /\ (Serving("books", "PUT") /\ res'.value.status = 200) =>
            \E i \in 1..Len(books) :
                /\ books[i].id \in ParamId
                /\ books'[i].id = books[i].id
                /\ books'[i] = res'.value.body.data
                /\ Len(books') = Len(books)
                /\ \A j \in 1..Len(books) : j # i => books'[j] = books[j]
       /\ (Serving("books", "DELETE") /\ res'.value.status = 200) =>
            /\ res'.value.body.data.id \in ParamId
            /\ Len(books') = Len(books) - 1
            /\ books' = SelectSeq(books, LAMBDA b : b.id \notin ParamId)
       /\ (req'.op = "request" /\ req'.router = "books") =>
            authors' = authors /\ routeAuthors' = routeAuthors]_vars

\* The first book has been replaced in place after the fourth was deleted and
\* a sixth appended.
C30_Witness ==
    /\ Served("books", "PUT") /\ res.value.status = 200
    /\ req.path = <<<<"1">>>>
    /\ Len(books) = 5
    /\ books[1].id = 1 /\ books[1] # SeedBook1
    /\ books[2] = SeedBook2
    /\ books[4] = SeedBook5
    /\ books[5].id = 6

----------------------------------------------------------------------------
(* POST /books requests of MaxClients clients in flight together.  A        *)
(* request arrives and its body is read off the socket, which takes any     *)
(* time; once it is parsed, validateBook and the handler run in one call    *)
(* (next() is called in the middleware, the handler has no await), so       *)
(* nothing else runs between the checks, getNextBookId and books.push.      *)
(* The requests are handled in any order.                                   *)

MaxClients == 3

\* A request arrives: express.json() starts to read its body.  view is the
\* books array at that moment.
Arrive(c) ==
    /\ req.op = "concurrent"
    /\ req.clients[c].pc = "idle"
    /\ \E body \in {BodyMisery, BodyTakenIsbn,
                    [BodyMisery EXCEPT !.isbn = Str(BookWithX.isbn)]} :
          req' = [req EXCEPT !.clients[c] = [pc |-> "parsed", body |-> body, view |-> books]]
    /\ UNCHANGED <<books, authors, routeAuthors, issued, served, res>>

\* A handling that checks the body and takes the id on the books as they were
\* when the request arrived, and pushes later.
HandlePost_checkedOnArrival(c) ==
    /\ req.op = "concurrent"
    /\ req.clients[c].pc = "parsed"
    /\ LET r == postBook(req.clients[c].body, req.clients[c].view, authors)
       IN  /\ books' = IF r.res.status = 201 THEN Append(books, r.res.body.data) ELSE books
           /\ res' = [res EXCEPT !.value[c] = r.res]
    /\ req' = [req EXCEPT !.clients[c].pc = "answered"]
    /\ UNCHANGED <<authors, routeAuthors, issued, served>>

\* The body is parsed: validateBook(false) and the handler of POST /books run
\* to the response in one call, on the books as they are now.
HandlePost(c) ==
    /\ req.op = "concurrent"
    /\ req.clients[c].pc = "parsed"
    /\ LET r == postBook(req.clients[c].body, books, authors)
       IN  /\ books' = r.books
           /\ res' = [res EXCEPT !.value[c] = r.res]
    /\ req' = [req EXCEPT !.clients[c].pc = "answered"]
    /\ UNCHANGED <<authors, routeAuthors, issued, served>>

InitConcurrent ==
    /\ books = SeedBooks
    /\ authors = SeedAuthors
    /\ routeAuthors = SeedAuthors
    /\ issued = NoneIssued
    /\ served = 0
    /\ req = [op |-> "concurrent",
              clients |-> [c \in 1..MaxClients |-> [pc |-> "idle"]]]
    /\ res = [done |-> FALSE, value |-> [c \in 1..MaxClients |-> [status |-> 0]]]

NextConcurrent == \E c \in 1..MaxClients : Arrive(c) \/ HandlePost(c)

SpecConcurrent == InitConcurrent /\ [][NextConcurrent]_vars

\* The clients whose book has been created.
Created == {c \in 1..MaxClients : res.value[c].status = 201}

\* C26: under any interleaving of requests in flight together, the checks of a
\* request (isbn unique, author there), its id and its write are one step
\* with no write of another request in between: two POST /books with the same
\* isbn do not both succeed and two creates do not get the same id.
C26_HandledInOneStep ==
    (req.op = "concurrent") =>
        /\ \A c, d \in Created :
              c # d => /\ res.value[c].body.data.id # res.value[d].body.data.id
                       /\ res.value[c].body.data.isbn # res.value[d].body.data.isbn
                       /\ trim(req.clients[c].body.isbn.value)
                             # trim(req.clients[d].body.isbn.value)
        /\ Distinct(books, LAMBDA b : b.id)
        /\ Distinct(books, LAMBDA b : b.isbn)
        /\ \A c \in Created :
              \E i \in 1..Len(books) : books[i] = res.value[c].body.data

\* Two requests with the same new isbn were in flight together (each arrived
\* when the books were the seeded ones): one created book 6, the other was
\* refused with Conflict; a third created book 7.
C26_Witness ==
    /\ req.op = "concurrent"
    /\ \A c \in 1..3 : req.clients[c].pc = "answered" /\ req.clients[c].view = SeedBooks
    /\ \E c, d, e \in 1..3 :
          /\ req.clients[c].body = BodyMisery /\ res.value[c].status = 201
          /\ req.clients[d].body = BodyMisery /\ res.value[d].status = 409
          /\ res.value[e].status = 201 /\ res.value[e].body.data.id = 7
    /\ Len(books) = 7

====
